---- MODULE Spec2Model ----
(***************************************************************************)
(* State-machine model of wasserzaehler.ino (newer copy, lines 1..862):    *)
(* the pulse interrupt handler isr(), the reconciliation part of loop(),   *)
(* vz_push(), the push timer and the administrative counter override.      *)
(* Times are milliseconds as returned by millis().  A String is a sequence *)
(* of one-character strings.  A uint32_t is held as the int with the same  *)
(* 32 bits, which is what every conversion between the two in the code     *)
(* yields.                                                                 *)
(***************************************************************************)
EXTENDS Integers, Sequences, FiniteSets, TLC

VARIABLES
    now,            \* millis()
    pulses,         \* volatile int pulses
    hilo,           \* volatile int hilo
    last_debounce,  \* volatile unsigned long last_debounce
    g_pulses,       \* uint32_t g_pulses, the shadow of pulses
    g_pulses_sent,  \* uint32_t g_pulses_sent, the sent watermark
    g_vzhost,       \* String g_vzhost
    g_vzurl,        \* String g_vzurl
    g_mqtthost,     \* String g_mqtthost
    g_mqttport,     \* uint16_t g_mqttport
    g_mqtttopic,    \* String g_mqtttopic
    last_pulse,     \* int last_pulse: g_pulses when commit_config() last ran
    nvs,            \* the Preferences namespace "wasserzaehler": key -> entry
    eeprom,         \* the struct eeprom_state at offset 0 of the EEPROM
    spc,            \* prefs_save(): the next key to put and the caller
    boots,          \* number of restarts so far
    temp_request,   \* bool temp_request
    conv,           \* the DS18B20: "absent" (getAddress() failed in setup()),
                    \* "busy" (a conversion has been requested), "idle"
    g_temp,         \* float g_temp, in the sensor's units of 1/128 degree
    last_temp,      \* unsigned long last_temp
    published,      \* the last mqtt_client.publish() call: topic and payload
    update_push,    \* bool update_push, the due flag
    last_push,      \* unsigned long last_push
    push_timer,     \* Ticker push_timer: millis() of its next expiry
    pc,             \* where loop() stands: "top" (line 807), "call" (810),
                    \* "wait" (623), "store" (817), "idle" (860..861);
                    \* "setup" (line 704) and "save" (inside prefs_save())
    p,              \* vz_push: int p
    timeout,        \* vz_push: unsigned long timeout
    request,        \* the request last written to the client, <<>> if none
    iter,           \* number of delay(100) calls loop() has made
    trigger,        \* history: what made line 807 start the running attempt
    last_attempt,   \* history: millis() when vz_push last returned
    quiet,          \* history: the last attempt failed, and since then pulses
                    \* has not changed and update_push has not been set
    last_accept,    \* history: millis() of the last transition isr() accepted, -1 if none
    ev,             \* history: the operation that made the last step, and its input
    aud             \* history: a record of what the push attempts carried, kept by
                    \* the specifications that need it

isrVars == <<pulses, hilo, last_debounce>>
mqttVars == <<g_mqtthost, g_mqttport, g_mqtttopic>>
storeVars == <<last_pulse, nvs, eeprom, spc, boots>>
tempVars == <<temp_request, conv, g_temp, last_temp, published>>
\* the configuration and what persists it
cfgVars == <<g_vzhost, g_vzurl, mqttVars, storeVars, tempVars>>
pushVars == <<g_pulses_sent, update_push, last_push, push_timer, p, timeout, request>>
loopVars == <<g_pulses, pc, iter, trigger>>
histVars == <<last_attempt, quiet>>
mainVars == <<g_pulses, g_pulses_sent, g_vzhost, g_vzurl, update_push, last_push,
              push_timer, pc, p, timeout, request, iter, trigger, last_attempt, quiet,
              mqttVars, storeVars, tempVars>>

vars == <<now, pulses, hilo, last_debounce, g_pulses, g_pulses_sent, g_vzhost,
          g_vzurl, update_push, last_push, push_timer, pc, p, timeout, request,
          iter, trigger, last_attempt, quiet, last_accept, ev, aud, mqttVars,
          storeVars, tempVars>>

\* ------------------------------------------------------------------ bounds
MaxPulses == 2
MaxIsrTime == 1500
TickMs == 50
MaxTime == 125000
MaxIter == 2
IdleMs == 59000
WaitMs == 3000
MaxBoots == 2
MaxTail == 5

\* --------------------------------------------------------- program constants
debounce_delay == 100
SerialDelay == 1000
BannerDelay == 100
LOW == 0
HIGH == 1
PushPeriod == 60
HttpTimeout == 5000
LoopDelay == 100
HttpOk == 200
ResponseMax == 13
StatusOffset == 9
StatusMinLen == 3
DefaultPort == 1883
PrefsVersion == 1
NoVersion == -1
SigLen == 6
TempUnit == 128
DisconnectedRaw == -7040

Level == {LOW, HIGH}

\* millis() - x in unsigned long arithmetic.  millis() wraps after 2^32 ms
\* (49.7 days); every time of the model is below that and x is an earlier
\* millis(), so the unsigned difference is the plain difference.
USub(a, b) == a - b

\* millis() when setup() attaches the interrupt: the two delay() calls have passed
BootMillis == SerialDelay + BannerDelay

\* ------------------------------------------------------------------- isr()
\* mutant: no event is ever taken for bounce
Debounce_never(t) == FALSE

\* mutant: off by one, an event exactly debounce_delay after the last is bounce
Debounce_le(t) == USub(t, last_debounce) <= debounce_delay

\* if (millis() - last_debounce < debounce_delay) debounce = true;
Debounce(t) == USub(t, last_debounce) < debounce_delay

\* mutant: last_debounce is written only by an accepted transition
isr_window_fixed(in) ==
    /\ ev' = [op |-> "isr", arg |-> in]
    /\ UNCHANGED now
    /\ IF hilo = in \/ USub(now, last_debounce) < debounce_delay
       THEN UNCHANGED <<pulses, hilo, last_debounce>>
       ELSE /\ last_debounce' = now
            /\ hilo' = in
            /\ IF in # LOW
               THEN pulses < MaxPulses /\ pulses' = pulses + 1
               ELSE UNCHANGED pulses

\* mutant: the test of the sampled level against hilo is missing
isr_no_level_test(in) ==
    /\ ev' = [op |-> "isr", arg |-> in]
    /\ UNCHANGED now
    /\ last_debounce' = now
    /\ IF USub(now, last_debounce) < debounce_delay
       THEN UNCHANGED <<pulses, hilo>>
       ELSE /\ hilo' = in
            /\ IF in # LOW
               THEN pulses < MaxPulses /\ pulses' = pulses + 1
               ELSE UNCHANGED pulses

\* mutant: a falling transition counts too
isr_counts_low(in) ==
    /\ ev' = [op |-> "isr", arg |-> in]
    /\ UNCHANGED now
    /\ IF hilo = in
       THEN UNCHANGED <<pulses, hilo, last_debounce>>
       ELSE /\ last_debounce' = now
            /\ IF Debounce(now)
               THEN UNCHANGED <<pulses, hilo>>
               ELSE /\ hilo' = in
                    /\ pulses < MaxPulses /\ pulses' = pulses + 1

\* mutant: only falling transitions are debounced
isr_rise_unfiltered(in) ==
    /\ ev' = [op |-> "isr", arg |-> in]
    /\ UNCHANGED now
    /\ IF hilo = in
       THEN UNCHANGED <<pulses, hilo, last_debounce>>
       ELSE /\ last_debounce' = now
            /\ IF Debounce(now) /\ in = LOW
               THEN UNCHANGED <<pulses, hilo>>
               ELSE /\ hilo' = in
                    /\ IF in # LOW
                       THEN pulses < MaxPulses /\ pulses' = pulses + 1
                       ELSE UNCHANGED pulses

isr(in) ==
    /\ ev' = [op |-> "isr", arg |-> in]
    /\ UNCHANGED now
    /\ IF hilo = in
       THEN UNCHANGED <<pulses, hilo, last_debounce>>
       ELSE /\ last_debounce' = now
            /\ IF Debounce(now)
               THEN UNCHANGED <<pulses, hilo>>
               ELSE /\ hilo' = in
                    /\ IF in # LOW
                       THEN pulses < MaxPulses /\ pulses' = pulses + 1
                       ELSE UNCHANGED pulses

\* the model's horizon: loop() makes MaxIter calls of delay(100)
Running == iter < MaxIter \/ pc # "idle"

\* mutant: isr() asks for a push itself
Edge_raises_flag(in) ==
    /\ Running
    /\ isr(in)
    /\ quiet' = (quiet /\ pulses' = pulses)
    /\ update_push' = (update_push \/ pulses' # pulses)
    /\ UNCHANGED <<cfgVars, g_pulses_sent, last_push, push_timer, p, timeout,
                   request, loopVars, last_attempt, last_accept>>

\* the interrupt fires: isr() runs between any two steps of loop()
Edge(in) ==
    /\ Running
    /\ isr(in)
    /\ quiet' = (quiet /\ pulses' = pulses)
    /\ UNCHANGED <<cfgVars, pushVars, loopVars, last_attempt, last_accept>>

\* the same, recording the time of each accepted transition
EdgeTimed(in) ==
    /\ isr(in)
    /\ last_accept' = IF hilo' # hilo THEN now ELSE last_accept
    /\ UNCHANGED mainVars

\* time passes between two edge events
Tick ==
    /\ \E d \in {TickMs, debounce_delay} :
          /\ now + d <= MaxIsrTime
          /\ now' = now + d
    /\ ev' = [op |-> "tick", arg |-> 0]
    /\ UNCHANGED <<isrVars, mainVars, last_accept>>

\* ------------------------------------------------------- String::toInt()
Digits == <<"0", "1", "2", "3", "4", "5", "6", "7", "8", "9">>
IsDigit(c) == \E i \in 1..Len(Digits) : Digits[i] = c
DigitVal(c) == (CHOOSE i \in 1..Len(Digits) : Digits[i] = c) - 1

RECURSIVE SkipSpace(_, _)
SkipSpace(s, i) == IF i <= Len(s) /\ s[i] = " " THEN SkipSpace(s, i + 1) ELSE i

RECURSIVE ParseDigits(_, _, _)
ParseDigits(s, i, acc) ==
    IF i <= Len(s) /\ IsDigit(s[i])
    THEN ParseDigits(s, i + 1, acc * 10 + DigitVal(s[i]))
    ELSE acc

\* atol(): leading blanks, an optional sign, then digits up to the first
\* character that is none; 0 when there is no digit
toInt(s) ==
    LET i == SkipSpace(s, 1)
        neg == i <= Len(s) /\ s[i] = "-"
        j == IF i <= Len(s) /\ s[i] \in {"-", "+"} THEN i + 1 ELSE i
        n == ParseDigits(s, j, 0)
    IN IF neg THEN 0 - n ELSE n

\* ------------------------------------------------------------ vz_push()
HttpPrefix == <<"H", "T", "T", "P", "/", "1", ".">>

startsWith(s, pre) == Len(s) >= Len(pre) /\ SubSeq(s, 1, Len(pre)) = pre

\* String::substring(from): the characters from offset `from` on
substring(s, from) == IF from >= Len(s) THEN <<>> ELSE SubSeq(s, from + 1, Len(s))

\* mutant: the status may be shorter than three characters
code_from_str_any_length(s) ==
    IF ~startsWith(s, HttpPrefix)
    THEN -1
    ELSE toInt(substring(s, StatusOffset))

code_from_str(s) ==
    IF ~startsWith(s, HttpPrefix)
    THEN -1
    ELSE LET c == substring(s, StatusOffset)
         IN IF Len(c) < StatusMinLen THEN -1 ELSE toInt(c)

\* while (client.available()) { if (response.length() < 13) response += c; }
ReadResponse(bytes) ==
    IF Len(bytes) <= ResponseMax THEN bytes ELSE SubSeq(bytes, 1, ResponseMax)

check_vzserver == g_vzhost # <<>> /\ g_vzurl # <<>>

\* what the server may answer; <<>> is no byte at all
Resp200 == <<"H", "T", "T", "P", "/", "1", ".", "1", " ", "2", "0", "0", " ", "O", "K">>
Resp500 == <<"H", "T", "T", "P", "/", "1", ".", "0", " ", "5", "0", "0", " ", "I", "n">>
Resp404 == <<"H", "T", "T", "P", "/", "1", ".", "1", " ", "4", "0", "4">>
RespShort == <<"H", "T", "T", "P", "/", "1", ".", "1", " ", "2", "0">>
RespGarbage == <<"2", "0", "0", " ", "O", "K">>
Responses == {Resp200, Resp500, Resp404, RespShort, RespGarbage}

\* the Ticker's period, in millis()
PeriodMs == PushPeriod * 1000

\* lines 811..815 when vz_push() has returned false
PushFailed(why) ==
    /\ update_push' = FALSE
    /\ pc' = "store"
    /\ quiet' = TRUE
    /\ ev' = [op |-> why, arg |-> <<>>, ret |-> FALSE]
    /\ UNCHANGED <<g_pulses_sent, last_push, push_timer, p, timeout, request>>

\* mutant: the value sent is the count, whatever the watermark
SendValue_count(count) == count

\* int p = g_pulses_sent; if (count > p) p = count;
SendValue(count) == IF count > g_pulses_sent THEN count ELSE g_pulses_sent

\* vz_push(pulses) is called (line 810) and runs up to client.print(cmd)
vz_push_enter ==
    /\ pc = "call"
    /\ UNCHANGED <<now, isrVars, cfgVars, g_pulses, iter, trigger, last_accept>>
    /\ IF ~check_vzserver
       THEN PushFailed("vz_push_unconfigured")
       ELSE \E connected \in BOOLEAN :
               IF ~connected
               THEN PushFailed("vz_push_connect")
               ELSE /\ p' = SendValue(pulses)
                    /\ request' = [host |-> g_vzhost, url |-> g_vzurl, value |-> p']
                    /\ timeout' = now
                    /\ pc' = "wait"
                    /\ ev' = [op |-> "request", arg |-> pulses]
                    /\ UNCHANGED <<g_pulses_sent, update_push, last_push, push_timer,
                                   quiet>>

vz_push_call == vz_push_enter /\ UNCHANGED last_attempt

\* the same, recording when vz_push() returns
vz_push_call_timed ==
    /\ vz_push_enter
    /\ last_attempt' = IF pc' = "store" THEN now ELSE last_attempt

\* the busy wait of lines 623..628 goes on with no byte available: for WaitMs,
\* or until millis() - timeout > 5000
vz_push_wait ==
    /\ pc = "wait"
    /\ USub(now, timeout) <= HttpTimeout
    /\ \E t \in {now + WaitMs, timeout + HttpTimeout + 1} :
          /\ t > now
          /\ t <= timeout + HttpTimeout + 1
          /\ t <= MaxTime
          /\ now' = t
    /\ ev' = [op |-> "loop", arg |-> 0]
    /\ UNCHANGED <<isrVars, mainVars, last_accept>>

\* mutant: line 815 runs only after a successful push
PushReturned_keep_flag(bytes) ==
    LET ret == code_from_str(ReadResponse(bytes))
    IN  /\ pc' = "store"
        /\ p' = 0 /\ timeout' = 0 /\ request' = <<>>
        /\ ev' = [op |-> "vz_push", arg |-> bytes, ret |-> (ret = HttpOk)]
        /\ IF ret = HttpOk
           THEN /\ g_pulses_sent' = p
                /\ push_timer' = IF ~update_push THEN now + PeriodMs ELSE push_timer
                /\ last_push' = now
                /\ quiet' = FALSE
                /\ update_push' = FALSE
           ELSE /\ quiet' = TRUE
                /\ UNCHANGED <<g_pulses_sent, push_timer, last_push, update_push>>

\* mutant: the timer is re-armed after every successful push
PushReturned_always_rearm(bytes) ==
    LET ret == code_from_str(ReadResponse(bytes))
    IN  /\ update_push' = FALSE
        /\ pc' = "store"
        /\ p' = 0 /\ timeout' = 0 /\ request' = <<>>
        /\ ev' = [op |-> "vz_push", arg |-> bytes, ret |-> (ret = HttpOk)]
        /\ IF ret = HttpOk
           THEN /\ g_pulses_sent' = p
                /\ push_timer' = now + PeriodMs
                /\ last_push' = now
                /\ quiet' = FALSE
           ELSE /\ quiet' = TRUE
                /\ UNCHANGED <<g_pulses_sent, push_timer, last_push>>

\* mutant: the watermark is set whatever the status
PushReturned_any_status(bytes) ==
    LET ret == code_from_str(ReadResponse(bytes))
    IN  /\ update_push' = FALSE
        /\ pc' = "store"
        /\ p' = 0 /\ timeout' = 0 /\ request' = <<>>
        /\ ev' = [op |-> "vz_push", arg |-> bytes, ret |-> (ret = HttpOk)]
        /\ g_pulses_sent' = p
        /\ IF ret = HttpOk
           THEN /\ push_timer' = IF ~update_push THEN now + PeriodMs ELSE push_timer
                /\ last_push' = now
                /\ quiet' = FALSE
           ELSE /\ quiet' = TRUE
                /\ UNCHANGED <<push_timer, last_push>>

\* mutant: a push that failed is tried again at once
PushReturned_retry(bytes) ==
    LET ret == code_from_str(ReadResponse(bytes))
    IN  /\ update_push' = FALSE
        /\ pc' = IF ret = HttpOk THEN "store" ELSE "call"
        /\ p' = 0 /\ timeout' = 0 /\ request' = <<>>
        /\ ev' = [op |-> "vz_push", arg |-> bytes, ret |-> (ret = HttpOk)]
        /\ IF ret = HttpOk
           THEN /\ g_pulses_sent' = p
                /\ push_timer' = IF ~update_push THEN now + PeriodMs ELSE push_timer
                /\ last_push' = now
                /\ quiet' = FALSE
           ELSE /\ quiet' = TRUE
                /\ UNCHANGED <<g_pulses_sent, push_timer, last_push>>

\* lines 629..650 and 810..815: the response is read, vz_push() returns and
\* loop() handles its result
PushReturned(bytes) ==
    LET ret == code_from_str(ReadResponse(bytes))
    IN  /\ update_push' = FALSE
        /\ pc' = "store"
        /\ p' = 0 /\ timeout' = 0 /\ request' = <<>>
        /\ ev' = [op |-> "vz_push", arg |-> bytes, ret |-> (ret = HttpOk)]
        /\ IF ret = HttpOk
           THEN /\ g_pulses_sent' = p
                /\ push_timer' = IF ~update_push THEN now + PeriodMs ELSE push_timer
                /\ last_push' = now
                /\ quiet' = FALSE
           ELSE /\ quiet' = TRUE
                /\ UNCHANGED <<g_pulses_sent, push_timer, last_push>>

\* the wait ends: bytes are available, or the 5000 ms have passed with none
vz_push_return ==
    /\ pc = "wait"
    /\ \E bytes \in Responses \cup {<<>>} :
          /\ bytes = <<>> => USub(now, timeout) > HttpTimeout
          /\ PushReturned(bytes)
    /\ UNCHANGED <<now, isrVars, cfgVars, g_pulses, iter, trigger, last_accept>>

vz_push_done == vz_push_return /\ UNCHANGED last_attempt

\* the same for one given response
vz_push_reply(bytes) ==
    /\ pc = "wait"
    /\ bytes = <<>> => USub(now, timeout) > HttpTimeout
    /\ PushReturned(bytes)
    /\ UNCHANGED <<now, isrVars, cfgVars, g_pulses, iter, trigger, last_accept,
                   last_attempt>>

\* the same, recording when vz_push() returns
vz_push_done_timed == vz_push_return /\ last_attempt' = now

\* ------------------------------------------------------------ trigger_push()
TimerDue == now >= push_timer

\* mutant: the expiry does not set the flag
trigger_push_noflag ==
    /\ pc \in {"idle", "top", "call", "wait"}
    /\ Running
    /\ TimerDue
    /\ push_timer' = push_timer + PeriodMs
    /\ ev' = [op |-> "trigger_push", arg |-> 0]
    /\ UNCHANGED <<now, isrVars, cfgVars, loopVars, g_pulses_sent, last_push, p,
                   timeout, request, last_attempt, quiet, update_push, last_accept>>

\* mutant: the expiry does not raise update_push
trigger_push_uncounted_noflag ==
    /\ pc \in {"idle", "top", "call", "wait"}
    /\ ~update_push
    /\ quiet' = FALSE
    /\ ev' = [op |-> "trigger_push", arg |-> 0]
    /\ UNCHANGED <<now, isrVars, cfgVars, loopVars, pushVars, last_attempt,
                   last_accept>>

\* push_timer expires at a time the model does not count: the Ticker is
\* periodic, so past every point there is an expiry
trigger_push_uncounted ==
    /\ pc \in {"idle", "top", "call", "wait"}
    /\ ~update_push
    /\ update_push' = TRUE
    /\ quiet' = FALSE
    /\ ev' = [op |-> "trigger_push", arg |-> 0]
    /\ UNCHANGED <<now, isrVars, cfgVars, loopVars, g_pulses_sent, last_push,
                   push_timer, p, timeout, request, last_attempt, last_accept>>

\* push_timer expires.  The callback runs where loop() yields: in delay(), in
\* handleClient() and inside vz_push() (connect() and available())
trigger_push ==
    /\ pc \in {"idle", "top", "call", "wait"}
    /\ Running
    /\ TimerDue
    /\ update_push' = TRUE
    /\ push_timer' = push_timer + PeriodMs
    /\ quiet' = FALSE
    /\ ev' = [op |-> "trigger_push", arg |-> 0]
    /\ UNCHANGED <<now, isrVars, cfgVars, loopVars, g_pulses_sent, last_push, p,
                   timeout, request, last_attempt, last_accept>>

\* ------------------------------------------------------------ handle_pulses()
\* the "set" arguments a request may carry
SetArgs == {<<"0">>, <<"x">>, <<"1">>}

\* mutant: the value 0 is accepted like any other
handle_pulses_accepts_zero(has_set, arg) ==
    /\ pc = "idle"
    /\ Running
    /\ UNCHANGED last_accept
    /\ LET n == toInt(arg)
       IN  /\ pulses' = IF has_set /\ n # pulses THEN n ELSE pulses
           /\ ev' = [op |-> "handle_pulses", arg |-> IF has_set THEN n ELSE 0,
                     ret |-> 200]
    /\ quiet' = (quiet /\ pulses' = pulses)
    /\ UNCHANGED <<now, hilo, last_debounce, cfgVars, pushVars, loopVars,
                   last_attempt>>

\* handle_pulses() and handle_pulses_html(), which differ in the page they send
handle_pulses(has_set, arg) ==
    /\ pc = "idle"
    /\ Running
    /\ UNCHANGED last_accept
    /\ LET n == toInt(arg)
       IN  /\ pulses' = IF has_set /\ n # 0 /\ n # pulses THEN n ELSE pulses
           /\ ev' = [op |-> "handle_pulses", arg |-> IF has_set THEN n ELSE 0,
                     ret |-> IF has_set /\ n = 0 THEN 500 ELSE 200]
    /\ quiet' = (quiet /\ pulses' = pulses)
    /\ UNCHANGED <<now, hilo, last_debounce, cfgVars, pushVars, loopVars,
                   last_attempt>>

\* ------------------------------------------------------------------ loop()
\* mutant: line 807 looks at the counter only
loop_test_no_flag ==
    /\ pc = "top"
    /\ ~TimerDue
    /\ IF g_pulses # pulses
       THEN /\ pc' = "call"
            /\ trigger' = IF update_push THEN "timer" ELSE "change"
       ELSE /\ pc' = "store"
            /\ UNCHANGED trigger
    /\ ev' = [op |-> "loop", arg |-> 0]
    /\ UNCHANGED <<now, isrVars, cfgVars, pushVars, g_pulses, iter, histVars,
                   last_accept>>

\* mutant: line 807 looks for a counter above its shadow
loop_test_increase ==
    /\ pc = "top"
    /\ ~TimerDue
    /\ IF g_pulses < pulses \/ update_push
       THEN /\ pc' = "call"
            /\ trigger' = IF update_push THEN "timer" ELSE "change"
       ELSE /\ pc' = "store"
            /\ UNCHANGED trigger
    /\ ev' = [op |-> "loop", arg |-> 0]
    /\ UNCHANGED <<now, isrVars, cfgVars, pushVars, g_pulses, iter, histVars,
                   last_accept>>

\* line 807: if (g_pulses != pulses || update_push)
loop_test ==
    /\ pc = "top"
    /\ ~TimerDue
    /\ IF g_pulses # pulses \/ update_push
       THEN /\ pc' = "call"
            /\ trigger' = IF update_push THEN "timer" ELSE "change"
       ELSE /\ pc' = "store"
            /\ UNCHANGED trigger
    /\ ev' = [op |-> "loop", arg |-> 0]
    /\ UNCHANGED <<now, isrVars, cfgVars, pushVars, g_pulses, iter, histVars,
                   last_accept>>

\* mutant: the shadow is set only when the last push did not fail
loop_store_on_success ==
    /\ pc = "store"
    /\ g_pulses' = IF quiet THEN g_pulses ELSE pulses
    /\ pc' = "idle"
    /\ trigger' = "none"
    /\ ev' = [op |-> "loop", arg |-> 0]
    /\ UNCHANGED <<now, isrVars, cfgVars, pushVars, iter, histVars, last_accept>>

\* mutant: line 817 the wrong way round, pulses = g_pulses
loop_store_reversed ==
    /\ pc = "store"
    /\ pulses' = g_pulses
    /\ pc' = "idle"
    /\ trigger' = "none"
    /\ ev' = [op |-> "loop", arg |-> 0]
    /\ UNCHANGED <<now, hilo, last_debounce, g_pulses, cfgVars, pushVars, iter,
                   histVars, last_accept>>

\* line 817: g_pulses = pulses
loop_store ==
    /\ pc = "store"
    /\ g_pulses' = pulses
    /\ pc' = "idle"
    /\ trigger' = "none"
    /\ ev' = [op |-> "loop", arg |-> 0]
    /\ UNCHANGED <<now, isrVars, cfgVars, pushVars, iter, histVars, last_accept>>

\* line 861: delay(100), and loop() is entered again
loop_delay ==
    /\ pc = "idle"
    /\ ~TimerDue
    /\ iter < MaxIter
    /\ now + LoopDelay <= MaxTime
    /\ now' = now + LoopDelay
    /\ iter' = iter + 1
    /\ pc' = "top"
    /\ ev' = [op |-> "loop", arg |-> 0]
    /\ UNCHANGED <<isrVars, cfgVars, pushVars, g_pulses, trigger, histVars,
                   last_accept>>

\* line 861 past the horizon of the model: loop() is entered again and again,
\* at times the model does not count
loop_delay_uncounted ==
    /\ pc = "idle"
    /\ iter = MaxIter
    /\ pc' = "top"
    /\ ev' = [op |-> "loop", arg |-> 0]
    /\ UNCHANGED <<now, isrVars, cfgVars, pushVars, g_pulses, iter, trigger,
                   histVars, last_accept>>

Min(a, b) == IF a < b THEN a ELSE b

\* loop() runs any number of times with nothing to do: the counter equals its
\* shadow, the flag is clear and the timer does not expire
idle_skip ==
    /\ pc = "idle"
    /\ Running
    /\ g_pulses = pulses
    /\ ~update_push
    /\ ~TimerDue
    /\ now' = Min(now + IdleMs, push_timer)
    /\ now' <= MaxTime
    /\ ev' = [op |-> "loop", arg |-> 0]
    /\ UNCHANGED <<isrVars, mainVars, last_accept>>

\* ------------------------------------------------------------ Preferences
\* the keys of the namespace, in the order in which prefs_save() puts them
NvKeys == <<"version", "pulses", "pulses_sent", "vzhost", "vzurl", "mqtthost",
            "mqtttopic", "mqttport">>
KeySet == {NvKeys[i] : i \in 1..Len(NvKeys)}

\* a key that was never put
NoEntry == [type |-> "none", val |-> 0]
EmptyNvs == [key \in KeySet |-> NoEntry]

\* pref.getInt(key, def) and its like: the value when the key holds an entry of
\* that type, the default otherwise; getString() yields the empty String then
getInt_default(key, def) == def
getInt(key, def) == IF nvs[key].type = "i32" THEN nvs[key].val ELSE def
getUInt(key, def) == IF nvs[key].type = "u32" THEN nvs[key].val ELSE def
getUShort(key, def) == IF nvs[key].type = "u16" THEN nvs[key].val ELSE def
getString(key) == IF nvs[key].type = "str" THEN nvs[key].val ELSE <<>>

\* pref_putString(): an empty String is stored as the char 0
pref_putString(value) ==
    IF value = <<>> THEN [type |-> "i8", val |-> 0] ELSE [type |-> "str", val |-> value]

\* mutant: the counter is stored, not its shadow
PutEntry_counter(k) ==
    CASE k = 1 -> [type |-> "i32", val |-> PrefsVersion]
      [] k = 2 -> [type |-> "u32", val |-> pulses]
      [] k = 3 -> [type |-> "u32", val |-> g_pulses_sent]
      [] k = 4 -> pref_putString(g_vzhost)
      [] k = 5 -> pref_putString(g_vzurl)
      [] k = 6 -> pref_putString(g_mqtthost)
      [] k = 7 -> pref_putString(g_mqtttopic)
      [] k = 8 -> [type |-> "u16", val |-> g_mqttport]

PutEntry_no_sent(k) ==
    CASE k = 1 -> [type |-> "i32", val |-> PrefsVersion]
      [] k = 2 -> [type |-> "u32", val |-> g_pulses]
      [] k = 3 -> [type |-> "u32", val |-> 0]
      [] k = 4 -> pref_putString(g_vzhost)
      [] k = 5 -> pref_putString(g_vzurl)
      [] k = 6 -> pref_putString(g_mqtthost)
      [] k = 7 -> pref_putString(g_mqtttopic)
      [] k = 8 -> [type |-> "u16", val |-> g_mqttport]

\* the entry the k-th put of prefs_save() writes
PutEntry(k) ==
    CASE k = 1 -> [type |-> "i32", val |-> PrefsVersion]
      [] k = 2 -> [type |-> "u32", val |-> g_pulses]
      [] k = 3 -> [type |-> "u32", val |-> g_pulses_sent]
      [] k = 4 -> pref_putString(g_vzhost)
      [] k = 5 -> pref_putString(g_vzurl)
      [] k = 6 -> pref_putString(g_mqtthost)
      [] k = 7 -> pref_putString(g_mqtttopic)
      [] k = 8 -> [type |-> "u16", val |-> g_mqttport]

\* the namespace after a complete prefs_save() of the state in memory
Saved == [key \in KeySet |-> PutEntry(CHOOSE k \in 1..Len(NvKeys) : NvKeys[k] = key)]

\* prefs_save() is not running
NoSave == [k |-> 0, ret |-> "none"]

\* prefs_save() is entered from `caller`
prefs_begin(caller) ==
    /\ pc' = "save"
    /\ spc' = [k |-> 1, ret |-> caller]

\* one put of prefs_save(), lines 494..508; after the last one prefs_save()
\* returns: to setup() (lines 741..785), to commit_config() (line 663) or to
\* handle_vz()
prefs_save ==
    /\ pc = "save"
    /\ nvs' = [nvs EXCEPT ![NvKeys[spc.k]] = PutEntry(spc.k)]
    /\ ev' = [op |-> "put", arg |-> spc.k]
    /\ IF spc.k < Len(NvKeys)
       THEN /\ spc' = [spc EXCEPT !.k = @ + 1]
            /\ UNCHANGED <<pc, pulses, last_pulse, push_timer>>
       ELSE /\ spc' = NoSave
            /\ CASE spc.ret = "setup" ->
                       /\ pulses' = g_pulses
                       /\ push_timer' = now + PeriodMs
                       /\ pc' = "top"
                       /\ UNCHANGED last_pulse
                 [] spc.ret = "commit" ->
                       /\ last_pulse' = g_pulses
                       /\ pc' = "top"
                       /\ UNCHANGED <<pulses, push_timer>>
                 [] spc.ret = "vz" ->
                       /\ pc' = "idle"
                       /\ UNCHANGED <<pulses, last_pulse, push_timer>>
    /\ UNCHANGED <<now, hilo, last_debounce, g_pulses, g_pulses_sent, g_vzhost,
                   g_vzurl, mqttVars, eeprom, boots, update_push, last_push, p,
                   timeout, request, iter, trigger, histVars, last_accept, tempVars>>

\* commit_timer expires: commit_config() runs, scheduled between two calls of
\* loop()
commit_config ==
    /\ pc = "top"
    /\ ev' = [op |-> "commit_config", arg |-> (g_pulses # last_pulse)]
    /\ IF g_pulses # last_pulse
       THEN prefs_begin("commit")
       ELSE UNCHANGED <<pc, spc>>
    /\ UNCHANGED <<now, isrVars, g_pulses, g_pulses_sent, g_vzhost, g_vzurl,
                   mqttVars, last_pulse, nvs, eeprom, boots, update_push, last_push,
                   push_timer, p, timeout, request, iter, trigger, histVars,
                   last_accept, tempVars>>

\* -------------------------------------------------------------- handle_vz()
Lower == {"a", "b", "c", "d", "e", "f", "g", "h", "i", "j", "k", "l", "m", "n",
          "o", "p", "q", "r", "s", "t", "u", "v", "w", "x", "y", "z"}
Upper == {"A", "B", "C", "D", "E", "F", "G", "H", "I", "J", "K", "L", "M", "N",
          "O", "P", "Q", "R", "S", "T", "U", "V", "W", "X", "Y", "Z"}

\* mutant: the test of the first character is missing
checkhost_any_first(host) ==
    \A i \in 1..Len(host) :
       IsDigit(host[i]) \/ host[i] \in Lower \/ host[i] \in Upper
          \/ host[i] = "-" \/ host[i] = "."

\* bool checkhost(const char *host, int len)
checkhost(host) ==
    IF host # <<>> /\ host[1] \in {"-", "."}
    THEN FALSE
    ELSE \A i \in 1..Len(host) :
            IsDigit(host[i]) \/ host[i] \in Lower \/ host[i] \in Upper
               \/ host[i] = "-" \/ host[i] = "."

\* the arguments a request to /vz may carry: getArg(name, arg) is args[name].has,
\* and arg is args[name].val
NoArg == [has |-> FALSE, val |-> <<>>]
Arg(v) == [has |-> TRUE, val |-> v]
HostArgs == {NoArg, Arg(<<"v", "z">>), Arg(<<"a", "!">>)}
UrlArgs == {NoArg, Arg(<<"/", "b">>), Arg(<<"b">>)}
MqHostArgs == {NoArg, Arg(<<"m">>), Arg(<<"-", "m">>)}
MqPortArgs == {NoArg, Arg(<<"0">>), Arg(<<"8">>), Arg(<<"8", "x">>)}
MqTopicArgs == {NoArg, Arg(<<"t">>)}
VzRequests == [host : HostArgs, url : UrlArgs, mqhost : MqHostArgs,
               mqport : MqPortArgs, mqtopic : MqTopicArgs]

\* the fields handle_vz() assigns: lines 518..523, 530..535, 542..547,
\* 555..559 and 571..573
SetsHost(args) ==
    args.host.has /\ checkhost(args.host.val) /\ g_vzhost # args.host.val
SetsUrl(args) ==
    /\ args.url.has
    /\ ~(Len(args.url.val) > 0 /\ args.url.val[1] # "/")
    /\ g_vzurl # args.url.val
SetsMqHost(args) ==
    args.mqhost.has /\ checkhost(args.mqhost.val) /\ g_mqtthost # args.mqhost.val
SetsMqPort(args) ==
    args.mqport.has /\ toInt(args.mqport.val) # 0 /\ toInt(args.mqport.val) # g_mqttport
SetsMqTopic(args) ==
    args.mqtopic.has /\ g_mqtttopic # args.mqtopic.val

\* g_mqttport = p: a long is stored into a uint16_t
Uint16(n) == n % 65536

\* handle_vz(), called by server.handleClient(): every argument is checked and
\* assigned on its own, and prefs_save() runs when any was assigned
handle_vz(args) ==
    /\ pc = "idle"
    /\ Running
    /\ g_vzhost' = IF SetsHost(args) THEN args.host.val ELSE g_vzhost
    /\ g_vzurl' = IF SetsUrl(args) THEN args.url.val ELSE g_vzurl
    /\ g_mqtthost' = IF SetsMqHost(args) THEN args.mqhost.val ELSE g_mqtthost
    /\ g_mqttport' = IF SetsMqPort(args) THEN Uint16(toInt(args.mqport.val))
                     ELSE g_mqttport
    /\ g_mqtttopic' = IF SetsMqTopic(args) THEN args.mqtopic.val ELSE g_mqtttopic
    /\ LET change == \/ SetsHost(args) \/ SetsUrl(args) \/ SetsMqHost(args)
                      \/ SetsMqPort(args) \/ SetsMqTopic(args)
           ret == IF args.mqport.has /\ toInt(args.mqport.val) = 0 THEN 500 ELSE 200
       IN  /\ ev' = [op |-> "handle_vz", arg |-> change, ret |-> ret]
           /\ IF change THEN prefs_begin("vz") ELSE UNCHANGED <<pc, spc>>
    /\ UNCHANGED <<now, isrVars, g_pulses, g_pulses_sent, last_pulse, nvs, eeprom,
                   boots, update_push, last_push, push_timer, p, timeout, request,
                   iter, trigger, histVars, last_accept, tempVars>>

\* ------------------------------------------------------------ temperature
check_mqserver == g_mqtthost # <<>> /\ g_mqtttopic # <<>> /\ g_mqttport # 0

\* what sensor.getTemp() may return, in units of 1/128 degree: 20.0, 20.1 and
\* DEVICE_DISCONNECTED_RAW
Temps == {20 * TempUnit, 20 * TempUnit + 13, DisconnectedRaw}

\* String(g_temp, 1) of a temperature that is not negative: the value rounded to
\* one decimal, as its whole part and its tenth
Fixed1(t) ==
    LET tenths == (t * 20 + TempUnit) \div (2 * TempUnit)
    IN  [whole |-> tenths \div 10, tenth |-> tenths % 10]

\* temp_timer expires: update_temp() runs as the Ticker's callback, where
\* loop() yields
update_temp ==
    /\ conv # "absent"
    /\ pc \in {"idle", "top", "call", "wait"}
    /\ Running
    /\ conv' = "busy"
    /\ temp_request' = TRUE
    /\ ev' = [op |-> "update_temp", arg |-> 0]
    /\ UNCHANGED <<now, isrVars, g_pulses, g_pulses_sent, g_vzhost, g_vzurl,
                   mqttVars, storeVars, update_push, last_push, push_timer, pc, p,
                   timeout, request, iter, trigger, histVars, last_accept, g_temp,
                   last_temp, published>>

\* lines 845..858 of loop(), when temp_request is set and the conversion is
\* complete: the temperature is read and, with an MQTT server configured,
\* published.  The block runs once in an iteration of loop(); it shares no
\* variable with line 817, and the step is taken before that line's.
loop_temp ==
    /\ pc = "store"
    /\ temp_request
    /\ conv = "busy"
    /\ \E t \in Temps :
          /\ g_temp' = t
          /\ ev' = [op |-> "loop_temp", arg |-> t]
          /\ IF t # DisconnectedRaw /\ check_mqserver
             THEN /\ last_temp' = now
                  /\ published' = [topic |-> g_mqtttopic, payload |-> Fixed1(t)]
             ELSE UNCHANGED <<last_temp, published>>
    /\ temp_request' = FALSE
    /\ conv' = "idle"
    /\ UNCHANGED <<now, isrVars, g_pulses, g_pulses_sent, g_vzhost, g_vzurl,
                   mqttVars, storeVars, update_push, last_push, push_timer, pc, p,
                   timeout, request, iter, trigger, histVars, last_accept>>

\* --------------------------------------------------------------- EEPROM
WATER1 == <<"W", "A", "T", "E", "R", "1">>

\* the byte 0xff of erased flash, as a character
Erased == "0xff"

\* an EEPROM that was never written: every byte is 0xff
BlankEeprom == [sig |-> <<Erased, Erased, Erased, Erased, Erased, Erased>>,
                pulses |-> -1, pulses_sent |-> -1, vzhost |-> <<>>, vzurl |-> <<>>]

\* mutant: only the first byte of the signature is looked at
LegacyValid_first_byte == eeprom.sig[1] # Erased

\* !(persist.sig[0] == 0xff || memcmp(persist.sig, "WATER1", 6))
LegacyValid == eeprom.sig[1] # Erased /\ SubSeq(eeprom.sig, 1, SigLen) = WATER1

\* ------------------------------------------------------------------ setup()
\* line 781: attachInterrupt() has been called
Attached == pc # "setup" /\ (pc = "save" => spc.ret # "setup")

\* setup() from line 704: the state is read from the Preferences or, with no
\* key "version" there, from the EEPROM, which is followed by prefs_save()
setup ==
    /\ pc = "setup"
    /\ IF getInt("version", NoVersion) = NoVersion
       THEN /\ IF ~LegacyValid
               THEN /\ g_pulses' = 0
                    /\ g_pulses_sent' = 0
                    /\ g_vzhost' = <<>>
                    /\ g_vzurl' = <<>>
               ELSE /\ g_pulses' = eeprom.pulses
                    /\ g_pulses_sent' = eeprom.pulses_sent
                    /\ g_vzhost' = eeprom.vzhost
                    /\ g_vzurl' = eeprom.vzurl
            /\ ev' = [op |-> "setup", arg |-> IF LegacyValid THEN "eeprom" ELSE "none"]
            /\ prefs_begin("setup")
            /\ UNCHANGED <<pulses, push_timer, mqttVars>>
       ELSE /\ g_pulses' = getUInt("pulses", 0)
            /\ g_pulses_sent' = getUInt("pulses_sent", 0)
            /\ g_vzhost' = getString("vzhost")
            /\ g_vzurl' = getString("vzurl")
            /\ g_mqttport' = getUShort("mqttport", g_mqttport)
            /\ g_mqtthost' = getString("mqtthost")
            /\ g_mqtttopic' = getString("mqtttopic")
            /\ pulses' = g_pulses'
            /\ push_timer' = now + PeriodMs
            /\ pc' = "top"
            /\ ev' = [op |-> "setup", arg |-> "prefs"]
            /\ UNCHANGED spc
    /\ UNCHANGED <<now, hilo, last_debounce, last_pulse, nvs, eeprom, boots,
                   update_push, last_push, p, timeout, request, iter, trigger,
                   histVars, last_accept, tempVars>>

\* float g_temp = -127.0
NoTemp == -127 * TempUnit

\* mqtt_client.publish() has not been called
NoPublish == [topic |-> <<>>, payload |-> [whole |-> 0, tenth |-> 0]]

\* the memory after a reset, setup() having reached line 704
Reset ==
    /\ now = BootMillis
    /\ pulses = 0
    /\ hilo = LOW
    /\ last_debounce = 0
    /\ g_pulses = 0
    /\ g_pulses_sent = 0
    /\ g_vzhost = <<>>
    /\ g_vzurl = <<>>
    /\ g_mqtthost = <<>>
    /\ g_mqttport = DefaultPort
    /\ g_mqtttopic = <<>>
    /\ last_pulse = 0
    /\ update_push = FALSE
    /\ last_push = 0
    /\ push_timer = BootMillis + PeriodMs
    /\ pc = "setup"
    /\ p = 0
    /\ timeout = 0
    /\ request = <<>>
    /\ iter = 0
    /\ spc = NoSave
    /\ trigger = "none"
    /\ last_attempt = BootMillis
    /\ quiet = FALSE
    /\ last_accept = -1
    /\ temp_request = FALSE
    /\ g_temp = NoTemp
    /\ last_temp = 0
    /\ published = NoPublish

\* power is lost or the device is reset, at any point: the memory is lost,
\* the Preferences and the EEPROM stay, and setup() runs again
Crash ==
    /\ boots < MaxBoots
    /\ boots' = boots + 1
    /\ now' = BootMillis
    /\ pulses' = 0
    /\ hilo' = LOW
    /\ last_debounce' = 0
    /\ g_pulses' = 0
    /\ g_pulses_sent' = 0
    /\ g_vzhost' = <<>>
    /\ g_vzurl' = <<>>
    /\ g_mqtthost' = <<>>
    /\ g_mqttport' = DefaultPort
    /\ g_mqtttopic' = <<>>
    /\ last_pulse' = 0
    /\ update_push' = FALSE
    /\ last_push' = 0
    /\ push_timer' = BootMillis + PeriodMs
    /\ pc' = "setup"
    /\ p' = 0
    /\ timeout' = 0
    /\ request' = <<>>
    /\ iter' = 0
    /\ spc' = NoSave
    /\ trigger' = "none"
    /\ last_attempt' = BootMillis
    /\ quiet' = FALSE
    /\ last_accept' = -1
    /\ temp_request' = FALSE
    /\ conv' = IF conv = "absent" THEN "absent" ELSE "busy"
    /\ g_temp' = NoTemp
    /\ last_temp' = 0
    /\ published' = NoPublish
    /\ ev' = [op |-> "crash", arg |-> pc]
    /\ UNCHANGED <<nvs, eeprom>>

\* no push attempt has been made: count and iteration of the last request (none),
\* the count of the one before, millis() of the last pulse and of the pulse the
\* last request carried
NoAttempt == [req_count |-> 0, req_prev |-> 0, req_iter |-> -1, rise |-> 0,
              req_rise |-> 0]

Hosts == {<<>>, <<"v", "z">>}
Urls == {<<"/", "a">>}

Init ==
    /\ now = BootMillis
    /\ pulses = 0
    /\ hilo = LOW
    /\ last_debounce = 0
    /\ g_pulses = 0
    /\ g_pulses_sent = 0
    /\ g_vzhost \in Hosts
    /\ g_vzurl \in Urls
    /\ update_push = FALSE
    /\ last_push = 0
    /\ push_timer = BootMillis + PeriodMs
    /\ pc = "top"
    /\ p = 0
    /\ timeout = 0
    /\ request = <<>>
    /\ iter = 0
    /\ trigger = "none"
    /\ last_attempt = BootMillis
    /\ quiet = FALSE
    /\ last_accept = -1
    /\ ev = [op |-> "setup", arg |-> 0]
    /\ aud = NoAttempt
    /\ g_mqtthost = <<>>
    /\ g_mqttport = DefaultPort
    /\ g_mqtttopic = <<>>
    /\ last_pulse = 0
    /\ nvs = Saved
    /\ eeprom = BlankEeprom
    /\ spc = NoSave
    /\ boots = 0
    /\ temp_request = FALSE
    /\ conv = "absent"
    /\ g_temp = NoTemp
    /\ last_temp = 0
    /\ published = NoPublish

Next ==
    \/ (\E in \in Level : Edge(in)) /\ UNCHANGED aud
    \/ loop_test /\ UNCHANGED aud
    \/ vz_push_call /\ UNCHANGED aud
    \/ vz_push_wait /\ UNCHANGED aud
    \/ vz_push_done /\ UNCHANGED aud
    \/ loop_store /\ UNCHANGED aud
    \/ (\E has_set \in BOOLEAN : \E arg \in SetArgs : handle_pulses(has_set, arg))
          /\ UNCHANGED aud
    \/ loop_delay /\ UNCHANGED aud
    \/ idle_skip /\ UNCHANGED aud
    \/ trigger_push /\ UNCHANGED aud

Spec == Init /\ [][Next]_vars

\* the debouncer alone, with the time between events in steps below the window
NextIsr ==
    \/ (\E in \in Level : EdgeTimed(in)) /\ UNCHANGED aud
    \/ Tick /\ UNCHANGED aud

SpecIsr == Init /\ [][NextIsr]_vars

\* the push cadence, with the time of each return of vz_push() recorded
NextBeat ==
    \/ (\E in \in Level : Edge(in)) /\ UNCHANGED aud
    \/ loop_test /\ UNCHANGED aud
    \/ vz_push_call_timed /\ UNCHANGED aud
    \/ vz_push_wait /\ UNCHANGED aud
    \/ vz_push_done_timed /\ UNCHANGED aud
    \/ loop_store /\ UNCHANGED aud
    \/ loop_delay /\ UNCHANGED aud
    \/ idle_skip /\ UNCHANGED aud
    \/ trigger_push /\ UNCHANGED aud

SpecBeat == Init /\ [][NextBeat]_vars

\* what each push attempt carried: a step that sends a request records its count,
\* the count of the request before, the iteration of loop() and the time of the
\* last pulse; a step in which isr() counts a pulse records its time
AuditAttempts ==
    aud' = IF ev'.op = "request"
           THEN [req_count |-> ev'.arg, req_prev |-> aud.req_count,
                 req_iter |-> iter, rise |-> aud.rise, req_rise |-> aud.rise]
           ELSE [aud EXCEPT !.rise = IF pulses' > pulses THEN now ELSE @]

\* pulses and pushes, with what each push attempt carried recorded
NextBurst ==
    \/ (\E in \in Level : Edge(in)) /\ AuditAttempts
    \/ loop_test /\ AuditAttempts
    \/ vz_push_call /\ AuditAttempts
    \/ vz_push_wait /\ AuditAttempts
    \/ vz_push_done /\ AuditAttempts
    \/ loop_store /\ AuditAttempts
    \/ loop_delay /\ AuditAttempts
    \/ idle_skip /\ AuditAttempts
    \/ trigger_push /\ AuditAttempts

SpecBurst == Init /\ [][NextBurst]_vars

\* a record the older firmware left in the EEPROM
LegacyEeprom == [sig |-> WATER1, pulses |-> 1, pulses_sent |-> 1,
                 vzhost |-> <<"v", "z">>, vzurl |-> <<"/", "a">>]

\* a device is switched on: its Preferences are empty, its EEPROM is blank or
\* holds a record of the older firmware
InitStore ==
    /\ Reset
    /\ conv = "absent"
    /\ nvs = EmptyNvs
    /\ eeprom \in {BlankEeprom, LegacyEeprom}
    /\ boots = 0
    /\ ev = [op |-> "reset", arg |-> 0]
    /\ aud = [done |-> nvs, target |-> nvs, before |-> nvs, legacy |-> FALSE]

\* what the commits did: when prefs_save() is entered, the namespace as it is
\* and as the complete save would leave it; when it returns, the namespace it
\* has completed; and whether setup() has read a valid record from the EEPROM
AuditStore ==
    aud' = [done |-> IF pc = "save" /\ pc' \notin {"save", "setup"} THEN nvs' ELSE aud.done,
            target |-> IF pc # "save" /\ pc' = "save" THEN Saved' ELSE aud.target,
            before |-> IF pc # "save" /\ pc' = "save" THEN nvs ELSE aud.before,
            legacy |-> aud.legacy \/ (ev'.op = "setup" /\ ev'.arg = "eeprom")]

\* counting, pushing, committing and restarting
NextStore ==
    \/ (\E in \in Level : Attached /\ Edge(in)) /\ AuditStore
    \/ loop_test /\ AuditStore
    \/ vz_push_call /\ AuditStore
    \/ vz_push_done /\ AuditStore
    \/ loop_store /\ AuditStore
    \/ loop_delay /\ AuditStore
    \/ commit_config /\ AuditStore
    \/ prefs_save /\ AuditStore
    \/ setup /\ AuditStore
    \/ Crash /\ AuditStore

SpecStore == InitStore /\ [][NextStore]_vars

\* a value that is a number: an optional sign and digits, nothing else
IsNumeric(s) ==
    LET j == IF s # <<>> /\ s[1] \in {"-", "+"} THEN 2 ELSE 1
    IN  j <= Len(s) /\ \A i \in j..Len(s) : IsDigit(s[i])

\* the inputs a configuration request must not carry: a host name with a
\* character other than a letter, a digit, '-' or '.', a path that does not
\* start with '/', a port that is not a number or is 0
InvalidHost(v) ==
    \E i \in 1..Len(v) :
       ~(IsDigit(v[i]) \/ v[i] \in Lower \/ v[i] \in Upper \/ v[i] \in {"-", "."})
InvalidPath(v) == v = <<>> \/ v[1] # "/"
InvalidPort(v) == ~IsNumeric(v) \/ toInt(v) = 0
InvalidRequest(args) ==
    \/ args.host.has /\ InvalidHost(args.host.val)
    \/ args.url.has /\ InvalidPath(args.url.val)
    \/ args.mqhost.has /\ InvalidHost(args.mqhost.val)
    \/ args.mqport.has /\ InvalidPort(args.mqport.val)

\* the configuration handler from a first boot on, with no pulse arriving; aud
\* records whether the last request to /vz carried an invalid input
InitVz ==
    /\ Reset
    /\ conv = "absent"
    /\ nvs = EmptyNvs
    /\ eeprom \in {BlankEeprom, LegacyEeprom}
    /\ boots = 0
    /\ ev = [op |-> "reset", arg |-> 0]
    /\ aud = [invalid |-> FALSE]

NextVz ==
    \/ setup /\ UNCHANGED aud
    \/ prefs_save /\ UNCHANGED aud
    \/ loop_test /\ UNCHANGED aud
    \/ loop_store /\ UNCHANGED aud
    \/ loop_delay /\ UNCHANGED aud
    \/ \E args \in VzRequests :
          handle_vz(args) /\ aud' = [invalid |-> InvalidRequest(args)]

SpecVz == InitVz /\ [][NextVz]_vars

\* no override is waiting: `push` and `commit` tell how far loop() has come
\* with the last accepted override that changed pulses ("none": there is none
\* or it has been dealt with; "set": pulses is set, line 807 has not run since;
\* "tick": line 807 has run, line 817 not yet; for commit "seen": line 817 has
\* run since); `ticked` tells whether commit_config() has run since that override,
\* `set` tells whether the last request carried a "set" value and
\* `numeric` whether that was a number
NoOverride == [push |-> "none", commit |-> "none", ticked |-> FALSE, set |-> FALSE,
               numeric |-> FALSE]

\* the phases advance with loop() and commit_config()
AuditLoop ==
    aud' = [push |-> CASE aud.push = "set" /\ pc = "top" /\ pc' \in {"call", "store"}
                            -> "tick"
                       [] aud.push = "tick" /\ pc = "store" /\ pc' = "idle" -> "none"
                       [] OTHER -> aud.push,
            commit |-> CASE aud.commit = "set" /\ pc = "store" /\ pc' = "idle" -> "seen"
                         [] aud.commit = "seen" /\ ev'.op = "commit_config" -> "none"
                         [] OTHER -> aud.commit,
            ticked |-> aud.ticked \/ (aud.commit # "none" /\ ev'.op = "commit_config"),
            set |-> aud.set,
            numeric |-> aud.numeric]

\* a request to /pulses or /pulses.html
AuditOverride(has_set, arg) ==
    aud' = [push |-> IF pulses' # pulses THEN "set" ELSE aud.push,
            commit |-> IF pulses' # pulses THEN "set" ELSE aud.commit,
            ticked |-> IF pulses' # pulses THEN FALSE ELSE aud.ticked,
            set |-> has_set,
            numeric |-> has_set /\ IsNumeric(arg)]

\* the "set" values of the override requests
AdminArgs == SetArgs \cup {<<"1", "x">>, <<"2">>}

\* the counter override from a first boot on, with pulses, pushes and commits
InitAdmin ==
    /\ Reset
    /\ conv = "absent"
    /\ nvs = EmptyNvs
    /\ eeprom \in {BlankEeprom, LegacyEeprom}
    /\ boots = 0
    /\ ev = [op |-> "reset", arg |-> 0]
    /\ aud = NoOverride

NextAdmin ==
    \/ setup /\ AuditLoop
    \/ prefs_save /\ AuditLoop
    \/ (\E in \in Level : Attached /\ Edge(in)) /\ AuditLoop
    \/ loop_test /\ AuditLoop
    \/ vz_push_call /\ AuditLoop
    \/ vz_push_done /\ AuditLoop
    \/ loop_store /\ AuditLoop
    \/ loop_delay /\ AuditLoop
    \/ commit_config /\ AuditLoop
    \/ \E has_set \in BOOLEAN : \E arg \in AdminArgs :
          handle_pulses(has_set, arg) /\ AuditOverride(has_set, arg)

SpecAdmin == InitAdmin /\ [][NextAdmin]_vars

\* an EEPROM that holds something else than a record of this program
CorruptEeprom == [sig |-> <<"W", "A", "T", "E", "R", "2">>, pulses |-> 2,
                  pulses_sent |-> 1, vzhost |-> <<"v", "z">>, vzurl |-> <<"/", "a">>]

\* a namespace without the key "version" that holds a stray counter
StrayNvs == [EmptyNvs EXCEPT !["pulses"] = [type |-> "u32", val |-> 2]]

\* a first boot with nothing recognizable in the Preferences and in the EEPROM
InitBoot ==
    /\ Reset
    /\ conv = "absent"
    /\ nvs \in {EmptyNvs, StrayNvs}
    /\ eeprom \in {BlankEeprom, CorruptEeprom}
    /\ boots = 0
    /\ ev = [op |-> "reset", arg |-> 0]
    /\ aud = NoAttempt

NextBoot ==
    \/ setup /\ UNCHANGED aud
    \/ prefs_save /\ UNCHANGED aud
    \/ (\E in \in Level : Attached /\ Edge(in)) /\ UNCHANGED aud
    \/ loop_test /\ UNCHANGED aud
    \/ vz_push_call /\ UNCHANGED aud
    \/ loop_store /\ UNCHANGED aud
    \/ loop_delay /\ UNCHANGED aud
    \/ commit_config /\ UNCHANGED aud

SpecBoot == InitBoot /\ [][NextBoot]_vars

\* a namespace that a prefs_save() with both sinks configured has written
MqttNvs ==
    [key \in KeySet |->
        CASE key = "version" -> [type |-> "i32", val |-> PrefsVersion]
          [] key = "pulses" -> [type |-> "u32", val |-> 1]
          [] key = "pulses_sent" -> [type |-> "u32", val |-> 0]
          [] key = "vzhost" -> [type |-> "str", val |-> <<"v", "z">>]
          [] key = "vzurl" -> [type |-> "str", val |-> <<"/", "a">>]
          [] key = "mqtthost" -> [type |-> "str", val |-> <<"m">>]
          [] key = "mqtttopic" -> [type |-> "str", val |-> <<"t">>]
          [] key = "mqttport" -> [type |-> "u16", val |-> DefaultPort]]

\* the program with its temperature sensor, from a boot on
InitTemp ==
    /\ Reset
    /\ conv \in {"absent", "busy"}
    /\ nvs \in {EmptyNvs, MqttNvs}
    /\ eeprom = BlankEeprom
    /\ boots = 0
    /\ ev = [op |-> "reset", arg |-> 0]
    /\ aud = NoAttempt

NextTemp ==
    \/ setup /\ UNCHANGED aud
    \/ prefs_save /\ UNCHANGED aud
    \/ (\E in \in Level : Attached /\ Edge(in)) /\ UNCHANGED aud
    \/ loop_test /\ UNCHANGED aud
    \/ vz_push_call /\ UNCHANGED aud
    \/ vz_push_done /\ UNCHANGED aud
    \/ loop_store /\ UNCHANGED aud
    \/ loop_temp /\ UNCHANGED aud
    \/ loop_delay /\ UNCHANGED aud
    \/ commit_config /\ UNCHANGED aud
    \/ update_temp /\ UNCHANGED aud

SpecTemp == InitTemp /\ [][NextTemp]_vars

\* no pulse has been counted
NoRise == [at |-> "none"]

\* aud tells where loop() stood when isr() counted the last pulse
AuditRise ==
    aud' = [at |-> IF ev'.op = "isr" /\ pulses' # pulses THEN pc ELSE aud.at]

\* the counter under every interleaving of isr() with loop(), the wait of
\* vz_push(), commit_config() and the override.  The server answers at once or
\* not at all: a wait that goes on lasts until the 5000 ms have passed.
InitCount ==
    /\ Reset
    /\ conv = "absent"
    /\ nvs = MqttNvs
    /\ eeprom = BlankEeprom
    /\ boots = 0
    /\ ev = [op |-> "reset", arg |-> 0]
    /\ aud = NoRise

NextCount ==
    \/ setup /\ AuditRise
    \/ (\E in \in Level : Attached /\ Edge(in)) /\ AuditRise
    \/ loop_test /\ AuditRise
    \/ vz_push_call /\ AuditRise
    \/ vz_push_wait /\ USub(now', timeout) > HttpTimeout /\ AuditRise
    \/ vz_push_done /\ AuditRise
    \/ loop_store /\ AuditRise
    \/ loop_delay /\ AuditRise
    \/ commit_config /\ AuditRise
    \/ prefs_save /\ AuditRise
    \/ (\E has_set \in BOOLEAN : \E arg \in SetArgs : handle_pulses(has_set, arg))
          /\ AuditRise

SpecCount == InitCount /\ [][NextCount]_vars

\* the server is not known to answer every request with the status 200
NoGood == [good |-> FALSE]

\* from this step on the server accepts every connection and answers every
\* request with 200 OK
Recover ==
    /\ ~aud.good
    /\ aud' = [good |-> TRUE]
    /\ UNCHANGED <<now, isrVars, mainVars, last_accept, ev>>

\* vz_push() is entered; once the server is good, connect() succeeds
CallLive ==
    /\ vz_push_call
    /\ (aud.good /\ check_vzserver) => ev'.op = "request"
    /\ UNCHANGED aud

\* vz_push() returns; once the server is good, with 200 OK
DoneLive ==
    /\ vz_push_done
    /\ aud.good => ev'.arg = Resp200
    /\ UNCHANGED aud

\* the sketch runs on: setup(), the steps of one iteration and the way into the next
LoopLive ==
    \/ setup /\ UNCHANGED aud
    \/ loop_test /\ UNCHANGED aud
    \/ CallLive
    \/ DoneLive
    \/ loop_store /\ UNCHANGED aud
    \/ loop_delay /\ UNCHANGED aud
    \/ loop_delay_uncounted /\ UNCHANGED aud

TimerLive == trigger_push_uncounted /\ UNCHANGED aud

InitLive ==
    /\ Reset
    /\ conv = "absent"
    /\ nvs = MqttNvs
    /\ eeprom = BlankEeprom
    /\ boots = 0
    /\ ev = [op |-> "reset", arg |-> 0]
    /\ aud = NoGood

NextLive ==
    \/ (\E in \in Level : Attached /\ Edge(in)) /\ UNCHANGED aud
    \/ LoopLive
    \/ TimerLive
    \/ Recover

\* the sketch never stops running, and the periodic timer never stops expiring:
\* its callback is pending until loop() yields, which it does in every
\* iteration (line 861)
SpecLive == InitLive /\ [][NextLive]_vars /\ WF_vars(LoopLive) /\ SF_vars(TimerLive)

\* what a server may send: a status line's head, then up to MaxTail characters
Heads == {<<"H", "T", "T", "P", "/", "1", ".", "1", " ">>,
          <<"H", "T", "T", "P", "/", "2", ".", "0", " ">>}
TailChars == {"2", "0", " "}

RECURSIVE Tails(_)
Tails(n) ==
    IF n = 0 THEN {<<>>}
    ELSE LET shorter == Tails(n - 1)
         IN shorter \cup {Append(t, c) : t \in shorter, c \in TailChars}

Replies == Responses \cup {<<>>} \cup {h \o t : h \in Heads, t \in Tails(MaxTail)}

\* the responses are what matters here: pulses arrive between two iterations
NextCode ==
    \/ (\E in \in Level : pc = "top" /\ Edge(in)) /\ UNCHANGED aud
    \/ loop_test /\ UNCHANGED aud
    \/ vz_push_call /\ UNCHANGED aud
    \/ vz_push_wait /\ USub(now', timeout) > HttpTimeout /\ UNCHANGED aud
    \/ (\E bytes \in Replies : vz_push_reply(bytes)) /\ UNCHANGED aud
    \/ loop_store /\ UNCHANGED aud
    \/ loop_delay /\ UNCHANGED aud

SpecCode == Init /\ [][NextCode]_vars

\* no iteration of loop() has completed line 817 since the boot
NoTick == [tick |-> -1]

\* the shadow that the last completed line 817 of this boot has set
AuditTick ==
    aud' = [tick |-> CASE pc = "store" /\ pc' = "idle" -> g_pulses'
                       [] ev'.op = "crash" -> -1
                       [] OTHER -> aud.tick]

InitCommit ==
    /\ Reset
    /\ conv = "absent"
    /\ nvs = MqttNvs
    /\ eeprom = BlankEeprom
    /\ boots = 0
    /\ ev = [op |-> "reset", arg |-> 0]
    /\ aud = NoTick

\* commit_timer has a period of 60 s (line 784): when it first expires, loop()
\* has completed an iteration
NextCommit ==
    \/ setup /\ AuditTick
    \/ prefs_save /\ AuditTick
    \/ (\E in \in Level : Attached /\ Edge(in)) /\ AuditTick
    \/ loop_test /\ AuditTick
    \/ vz_push_call /\ AuditTick
    \/ vz_push_done /\ AuditTick
    \/ loop_store /\ AuditTick
    \/ loop_delay /\ AuditTick
    \/ commit_config /\ aud.tick >= 0 /\ AuditTick
    \/ (\E has_set \in BOOLEAN : \E arg \in SetArgs : handle_pulses(has_set, arg))
          /\ AuditTick
    \/ Crash /\ AuditTick

SpecCommit == InitCommit /\ [][NextCommit]_vars

\* no edge event has been delivered: the level last sampled, the number of
\* samples HIGH that followed a sample LOW (counted up to MaxPulses + 1), the
\* number of increments of pulses, millis() of the last one and whether hilo
\* has fallen since
NoEdge == [level |-> LOW, rises |-> 0, incs |-> 0, inc_at |-> -1, fell |-> FALSE]

AuditEdge ==
    aud' = IF ev'.op # "isr" THEN aud
           ELSE [level |-> ev'.arg,
                 rises |-> IF aud.level = LOW /\ ev'.arg = HIGH
                           THEN Min(aud.rises + 1, MaxPulses + 1)
                           ELSE aud.rises,
                 incs |-> IF pulses' # pulses THEN aud.incs + 1 ELSE aud.incs,
                 inc_at |-> IF pulses' # pulses THEN now ELSE aud.inc_at,
                 fell |-> IF pulses' # pulses THEN FALSE
                          ELSE aud.fell \/ (hilo = HIGH /\ hilo' = LOW)]

\* a configured device that has not counted a pulse yet
FreshNvs == [MqttNvs EXCEPT !["pulses"] = [type |-> "u32", val |-> 0]]

InitEdges ==
    /\ Reset
    /\ conv = "absent"
    /\ nvs = FreshNvs
    /\ eeprom = BlankEeprom
    /\ boots = 0
    /\ ev = [op |-> "reset", arg |-> 0]
    /\ aud = NoEdge

\* the debouncer after setup(), with the history of the edge events
NextEdges ==
    \/ setup /\ AuditEdge
    \/ (\E in \in Level : Attached /\ EdgeTimed(in)) /\ AuditEdge
    \/ Attached /\ Tick /\ AuditEdge

SpecEdges == InitEdges /\ [][NextEdges]_vars

\* requests to /vz that set the two host names and the path
NameArgs == {NoArg, Arg(<<>>), Arg(<<"v", "-", "1", ".", "Z">>), Arg(<<".", "z">>),
             Arg(<<"-", "z">>), Arg(<<"a", " ", "b">>), Arg(<<"a", "/">>)}
PathArgs == {NoArg, Arg(<<>>), Arg(<<"/", "b">>), Arg(<<"b", "/">>), Arg(<<" ", "/">>)}
NameRequests == [host : NameArgs, url : PathArgs,
                 mqhost : {NoArg, Arg(<<"m", ".">>), Arg(<<".", "m">>), Arg(<<"m", "_">>)},
                 mqport : {NoArg}, mqtopic : {NoArg}]

\* the configuration handler from a first boot on, with pulses and pushes
NextNames ==
    \/ setup /\ UNCHANGED aud
    \/ prefs_save /\ UNCHANGED aud
    \/ (\E in \in Level : pc = "top" /\ Edge(in)) /\ UNCHANGED aud
    \/ loop_test /\ UNCHANGED aud
    \/ vz_push_call /\ UNCHANGED aud
    \/ vz_push_done /\ UNCHANGED aud
    \/ loop_store /\ UNCHANGED aud
    \/ loop_delay /\ UNCHANGED aud
    \/ \E args \in NameRequests :
          handle_vz(args) /\ aud' = [invalid |-> InvalidRequest(args)]

SpecNames == InitVz /\ [][NextNames]_vars

\* the "set" values of override requests with a sign
SignedArgs == {<<"-", "1">>, <<"+", "1">>, <<"0">>, <<"-", "x">>}

\* a configured device with the counter override, signed values included
InitSigned ==
    /\ Reset
    /\ conv = "absent"
    /\ nvs = FreshNvs
    /\ eeprom = BlankEeprom
    /\ boots = 0
    /\ ev = [op |-> "reset", arg |-> 0]
    /\ aud = NoAttempt

NextSigned ==
    \/ setup /\ UNCHANGED aud
    \/ (\E in \in Level : Attached /\ Edge(in)) /\ UNCHANGED aud
    \/ loop_test /\ UNCHANGED aud
    \/ vz_push_call /\ UNCHANGED aud
    \/ vz_push_done /\ UNCHANGED aud
    \/ loop_store /\ UNCHANGED aud
    \/ loop_delay /\ UNCHANGED aud
    \/ (\E has_set \in BOOLEAN : \E arg \in SignedArgs : handle_pulses(has_set, arg))
          /\ UNCHANGED aud

SpecSigned == InitSigned /\ [][NextSigned]_vars

\* no tick has begun: the counter as line 807 read it and as line 810 handed
\* it to vz_push() (-1: no call in this tick)
NoSnap == [seen |-> 0, sent |-> -1]

AuditSnap ==
    aud' = CASE pc = "top" /\ pc' # "top" -> [seen |-> pulses, sent |-> -1]
             [] pc = "call" /\ pc' # "call" -> [aud EXCEPT !.sent = pulses]
             [] OTHER -> aud

InitSnap ==
    /\ Reset
    /\ conv = "absent"
    /\ nvs = FreshNvs
    /\ eeprom = BlankEeprom
    /\ boots = 0
    /\ ev = [op |-> "reset", arg |-> 0]
    /\ aud = NoSnap

\* loop() with isr() between any two of its reads of the counter
NextSnap ==
    \/ setup /\ AuditSnap
    \/ (\E in \in Level : Attached /\ Edge(in)) /\ AuditSnap
    \/ loop_test /\ AuditSnap
    \/ vz_push_call /\ AuditSnap
    \/ vz_push_done /\ AuditSnap
    \/ loop_store /\ AuditSnap
    \/ loop_delay /\ AuditSnap

SpecSnap == InitSnap /\ [][NextSnap]_vars

\* update_push was not raised while vz_push() was running
NoLate == [late |-> FALSE]

\* whether the expiry that raised update_push came while vz_push() was running
AuditFlag ==
    aud' = [late |-> CASE ev'.op = "trigger_push" -> pc = "wait"
                       [] ~update_push' -> FALSE
                       [] OTHER -> aud.late]

InitFlag ==
    /\ Reset
    /\ conv = "absent"
    /\ nvs = MqttNvs
    /\ eeprom = BlankEeprom
    /\ boots = 0
    /\ ev = [op |-> "reset", arg |-> 0]
    /\ aud = NoLate

\* loop() with the expiry of push_timer at every point where the sketch yields
NextFlag ==
    \/ setup /\ AuditFlag
    \/ (\E in \in Level : Attached /\ Edge(in)) /\ AuditFlag
    \/ loop_test /\ AuditFlag
    \/ vz_push_call /\ AuditFlag
    \/ vz_push_done /\ AuditFlag
    \/ loop_store /\ AuditFlag
    \/ loop_delay /\ AuditFlag
    \/ trigger_push_uncounted /\ AuditFlag

SpecFlag == InitFlag /\ [][NextFlag]_vars

\* counting, pushing on change and on the timer, and committing
NextMark ==
    \/ setup /\ AuditTick
    \/ prefs_save /\ AuditTick
    \/ (\E in \in Level : Attached /\ Edge(in)) /\ AuditTick
    \/ loop_test /\ AuditTick
    \/ vz_push_call /\ AuditTick
    \/ vz_push_done /\ AuditTick
    \/ loop_store /\ AuditTick
    \/ loop_delay /\ AuditTick
    \/ trigger_push_uncounted /\ AuditTick
    \/ commit_config /\ aud.tick >= 0 /\ AuditTick

SpecMark == InitCommit /\ [][NextMark]_vars

\* the sink has acknowledged no value: the greatest value it has answered
\* with 200 OK
NoAck == [acked |-> 0]

AuditAck ==
    aud' = [acked |-> IF ev'.op = "vz_push" /\ ev'.ret /\ g_pulses_sent' > aud.acked
                      THEN g_pulses_sent'
                      ELSE aud.acked]

InitAck ==
    /\ Reset
    /\ conv = "absent"
    /\ nvs = FreshNvs
    /\ eeprom = BlankEeprom
    /\ boots = 0
    /\ ev = [op |-> "reset", arg |-> 0]
    /\ aud = NoAck

\* counting, pushing, committing and restarting, with what the sink has seen
NextAck ==
    \/ setup /\ AuditAck
    \/ prefs_save /\ AuditAck
    \/ (\E in \in Level : Attached /\ Edge(in)) /\ AuditAck
    \/ loop_test /\ AuditAck
    \/ vz_push_call /\ AuditAck
    \/ vz_push_done /\ AuditAck
    \/ loop_store /\ AuditAck
    \/ loop_delay /\ AuditAck
    \/ commit_config /\ AuditAck
    \/ Crash /\ AuditAck

SpecAck == InitAck /\ [][NextAck]_vars

\* the device has not been reset while the prefs_save() of setup() was running
NoCut == [cut |-> FALSE]

\* setup() returns: from the Preferences at once, or when its prefs_save() does
StartupEnds == pc \in {"setup", "save"} /\ Attached'

\* whether the last reset came while the prefs_save() of setup() was running,
\* no startup having completed since
AuditUpgrade ==
    aud' = [cut |-> CASE ev'.op = "crash" -> (pc = "save" /\ spc.ret = "setup")
                      [] StartupEnds -> FALSE
                      [] OTHER -> aud.cut]

\* a device with a record of the older firmware is switched on for the first
\* time with this one
InitUpgrade ==
    /\ Reset
    /\ conv = "absent"
    /\ nvs = EmptyNvs
    /\ eeprom = LegacyEeprom
    /\ boots = 0
    /\ ev = [op |-> "reset", arg |-> 0]
    /\ aud = NoCut

NextUpgrade ==
    \/ setup /\ AuditUpgrade
    \/ prefs_save /\ AuditUpgrade
    \/ (\E in \in Level : Attached /\ Edge(in)) /\ AuditUpgrade
    \/ loop_test /\ AuditUpgrade
    \/ vz_push_call /\ AuditUpgrade
    \/ vz_push_done /\ AuditUpgrade
    \/ loop_store /\ AuditUpgrade
    \/ loop_delay /\ AuditUpgrade
    \/ Crash /\ AuditUpgrade

SpecUpgrade == InitUpgrade /\ [][NextUpgrade]_vars

\* =================================================================== claims

\* the step is isr() sampling a level that differs from hilo, inside the window
BounceStep ==
    /\ ev'.op = "isr"
    /\ ev'.arg # hilo
    /\ USub(now, last_debounce) < debounce_delay

\* C1 (as stated): an edge rejected as bounce leaves last_debounce unchanged.
C1_BounceKeepsLastDebounce == [][BounceStep => last_debounce' = last_debounce]_vars

\* C1 (amended): an edge rejected as bounce leaves hilo and pulses unchanged
\* but sets last_debounce to the time of the event, so each bounce restarts
\* the debounce window.
C1_BounceRestartsWindow ==
    [][BounceStep => /\ last_debounce' = now
                     /\ hilo' = hilo
                     /\ pulses' = pulses]_vars

\* a bounce has been rejected and has moved last_debounce past the accepted
\* transition
C1_Witness ==
    /\ ev.op = "isr"
    /\ ev.arg # hilo
    /\ last_accept # -1
    /\ last_debounce = now
    /\ last_debounce > last_accept

\* C2: an edge event that arrives less than debounce_delay after an accepted
\* transition leaves pulses at the value it had after that transition.
C2_WindowKeepsPulses ==
    [][(/\ ev'.op = "isr"
        /\ last_accept # -1
        /\ USub(now, last_accept) < debounce_delay) => pulses' = pulses]_vars

\* two events have arrived inside the window of an accepted rising transition,
\* the later one a rising edge again
C2_Witness ==
    /\ ev.op = "isr"
    /\ ev.arg = HIGH
    /\ hilo = HIGH
    /\ pulses > 0
    /\ last_accept # -1
    /\ last_debounce > last_accept
    /\ USub(now, last_accept) < debounce_delay

\* C3: an edge event whose sampled level equals hilo leaves pulses, hilo and
\* last_debounce unchanged, whatever its timing.
C3_SameLevelIgnored ==
    [][(ev'.op = "isr" /\ ev'.arg = hilo)
          => UNCHANGED <<pulses, hilo, last_debounce>>]_vars

\* an event with the stored level arrived after the window had passed
C3_Witness ==
    /\ ev.op = "isr"
    /\ ev.arg = hilo
    /\ USub(now, last_debounce) >= debounce_delay
    /\ last_accept # -1

\* C4: an edge event at time t with a level L different from hilo and
\* t - last_debounce >= debounce_delay is accepted: hilo = L, last_debounce = t,
\* pulses one more if L is HIGH and unchanged if L is LOW.
C4_Accept ==
    [][(/\ ev'.op = "isr"
        /\ ev'.arg # hilo
        /\ USub(now, last_debounce) >= debounce_delay)
          => /\ hilo' = ev'.arg
             /\ last_debounce' = now
             /\ pulses' = pulses + (IF ev'.arg = HIGH THEN 1 ELSE 0)]_vars

\* a falling and then a rising transition were accepted, the rising one exactly
\* debounce_delay after the falling one
C4_Witness ==
    /\ ev.op = "isr"
    /\ ev.arg = HIGH
    /\ hilo = HIGH
    /\ last_accept = now
    /\ pulses = 2


Max(a, b) == IF a >= b THEN a ELSE b

\* C5: pulses never decreases in a step, except in a step that is an accepted
\* override (handle_pulses with a "set" value that is not 0).
C5_PulsesMonotone ==
    [][pulses' >= pulses \/ (ev'.op = "handle_pulses" /\ ev'.arg # 0)]_vars

\* an accepted override has taken the counter below its shadow
C5_Witness ==
    /\ ev.op = "handle_pulses"
    /\ ev.arg # 0
    /\ pulses < g_pulses

\* C6: g_pulses_sent never decreases, and it changes only in the return of an
\* attempt that was answered with status 200, to the value that attempt sent.
C6_Watermark ==
    [][/\ g_pulses_sent' >= g_pulses_sent
       /\ g_pulses_sent' # g_pulses_sent
             => /\ ev'.op = "vz_push"
                /\ ev'.arg = Resp200
                /\ request # <<>>
                /\ g_pulses_sent' = request.value]_vars

\* an attempt answered with status 500 has returned after the watermark had
\* been advanced
C6_Witness ==
    /\ ev.op = "vz_push"
    /\ ev.arg = Resp500
    /\ g_pulses_sent > 0

\* C7: the value a request carries is max(g_pulses_sent, count), count being
\* the pulse count handed to vz_push; it is never below g_pulses_sent.
C7_SendsMax ==
    [][ev'.op = "request"
          => /\ request'.value = Max(g_pulses_sent, ev'.arg)
             /\ request'.value >= g_pulses_sent
             /\ ev'.arg = pulses]_vars

\* a request was sent after an override took the counter below the watermark
C7_Witness ==
    /\ ev.op = "request"
    /\ request.value > ev.arg
    /\ ev.arg > 0

\* the step is the return of an attempt that failed: no connection, no byte
\* within the timeout, a status other than 200, or no status line
FailedAttempt ==
    \/ ev'.op = "vz_push_connect"
    \/ /\ ev'.op = "vz_push"
       /\ ev'.arg \in {<<>>, Resp500, Resp404, RespShort, RespGarbage}

\* C8: a failed attempt is a soft failure: vz_push returns false, g_pulses_sent,
\* last_push and the push timer are unchanged, loop() goes on to line 817, and
\* no attempt runs again until pulses changes or update_push is set.
C8_SoftFailure ==
    /\ [][FailedAttempt => /\ ev'.ret = FALSE
                           /\ UNCHANGED <<g_pulses_sent, last_push, push_timer>>
                           /\ pc' = "store"]_vars
    /\ [](quiet => pc \notin {"call", "wait"})

\* after a failed attempt line 807 was evaluated again and started no attempt
C8_Witness ==
    /\ quiet
    /\ pc = "store"
    /\ ev.op = "loop"
    /\ iter > 0

\* the step is the return of an attempt that was answered with status 200
SucceededAttempt == ev'.op = "vz_push" /\ ev'.arg = Resp200

\* C9 (as stated): a successful attempt re-arms the timer to 60 s from now when
\* it was change-triggered (update_push clear when line 807 started it) and
\* leaves the timer alone when it was timer-triggered; a failed attempt leaves
\* the timer alone.
C9_RearmByTrigger ==
    [][/\ SucceededAttempt /\ trigger = "change" => push_timer' = now + PeriodMs
       /\ SucceededAttempt /\ trigger = "timer" => push_timer' = push_timer
       /\ FailedAttempt => push_timer' = push_timer]_vars

\* C9 (amended): a successful attempt re-arms the timer to 60 s from now when
\* update_push is clear at the moment vz_push returns, and leaves the timer alone
\* when update_push is set at that moment, be it that the attempt was
\* timer-triggered or that the timer expired while the attempt was running; a
\* failed attempt leaves the timer alone.
C9_RearmByFlagAtReturn ==
    [][/\ SucceededAttempt /\ ~update_push => push_timer' = now + PeriodMs
       /\ SucceededAttempt /\ update_push => push_timer' = push_timer
       /\ FailedAttempt => push_timer' = push_timer]_vars

\* a change-triggered attempt has succeeded and has re-armed the timer
C9_Witness ==
    /\ ev.op = "vz_push"
    /\ ev.arg = Resp200
    /\ trigger = "change"
    /\ push_timer = now + PeriodMs
    /\ now > BootMillis

\* C10: while the HTTP sink is configured, an attempt is running or the last
\* return of vz_push (the start, before the first) is at most 60 s and one
\* delay(100) ago.
C10_Heartbeat ==
    check_vzserver =>
        \/ pc \in {"call", "wait"}
        \/ USub(now, last_attempt) <= PeriodMs + LoopDelay

\* a timer-triggered attempt has returned more than 60 s after the start, no
\* pulse having arrived
C10_Witness ==
    /\ check_vzserver
    /\ pc = "store"
    /\ trigger = "timer"
    /\ pulses = 0
    /\ last_attempt = now
    /\ now > BootMillis + PeriodMs

\* the closest two pulses can follow each other: isr() accepts a falling and a
\* rising transition debounce_delay after the transition before
BurstGap == 2 * debounce_delay

\* the step sends a request with a higher count than the request before it
NextAttempt == ev'.op = "request" /\ aud.req_iter >= 0 /\ ev'.arg > aud.req_count

\* C11 (as stated): the pulses of a burst get one push attempt: a request with a
\* higher count than the request before is sent only when the last pulse came
\* more than BurstGap after the last pulse that request carried.
C11_OnePushPerBurst ==
    [][NextAttempt => USub(aud.rise, aud.req_rise) > BurstGap]_vars

\* C11 (amended): pulses are coalesced per iteration of loop(): an iteration
\* sends at most one request, which carries the count at the time of the call,
\* however many pulses isr() accepted before it.
C11_OnePushPerTick ==
    [][ev'.op = "request" => /\ ev'.arg = pulses
                             /\ iter > aud.req_iter]_vars

\* two pulses BurstGap apart have got a request each
C11_Witness ==
    /\ ev.op = "request"
    /\ aud.req_count = 2
    /\ aud.req_prev = 1
    /\ aud.req_iter = 2
    /\ aud.rise = BootMillis + BurstGap

\* C12: line 817 sets g_pulses to the current pulses at the end of every
\* iteration, whatever became of a push; and an iteration that starts after a
\* failed push, pulses not having changed and update_push not having been set
\* since, makes no push attempt.
C12_ShadowAlwaysStored ==
    /\ [][(pc = "store" /\ pc' # "store") => (pc' = "idle" /\ g_pulses' = pulses)]_vars
    /\ [][(pc = "top" /\ pc' # "top") => pc' \in {"call", "store"}]_vars
    /\ [][(quiet /\ pc = "top") => pc' \in {"top", "store"}]_vars

\* after an earlier success a push of a higher count has failed, and line 817
\* has set the shadow to that count all the same
C12_Witness ==
    /\ quiet
    /\ pc = "idle"
    /\ iter >= 1
    /\ g_pulses = pulses
    /\ g_pulses > g_pulses_sent
    /\ g_pulses_sent > 0

\* the step is the last put of a prefs_save() that `caller` entered
SaveReturns(caller) == ev'.op = "put" /\ spc.k = Len(NvKeys) /\ spc.ret = caller

\* C13: a commit-timer tick writes the Preferences only when the state to be
\* stored differs from what is stored: a prefs_save() that commit_config()
\* has entered leaves the namespace different from what it was.
C13_CommitWritesOnlyChanges ==
    [][SaveReturns("commit") => nvs' # aud.before]_vars

\* C14: a commit is atomic: whenever setup() is about to read the Preferences,
\* they are what the last completed prefs_save() left or what the prefs_save()
\* that was running would have left, never a mixture of the two.
C14_CommitAtomic ==
    pc = "setup" => nvs \in {aud.done, aud.target}

\* C15: setup() resumes from the last completed commit: when it has read the
\* Preferences that a completed prefs_save() wrote, pulses and g_pulses are the
\* counter and g_pulses_sent is the watermark of the last completed one.
C15_RestartResumesCommit ==
    [][(/\ ev'.op = "setup"
        /\ ev'.arg = "prefs"
        /\ aud.done["version"].type # "none")
          => /\ pulses' = aud.done["pulses"].val
             /\ g_pulses' = aud.done["pulses"].val
             /\ g_pulses_sent' = aud.done["pulses_sent"].val]_vars

\* C19: with no key "version" in the Preferences and a record with the
\* signature WATER1 in the EEPROM, setup() takes counter, watermark, host and
\* path from the record, leaves the MQTT settings at their defaults and enters
\* prefs_save() at once; when that prefs_save() returns, the Preferences hold
\* the record's values in the current format and pulses is the record's counter.
C19_LegacyUpgrade ==
    /\ [][(ev'.op = "setup" /\ nvs["version"].type = "none" /\ LegacyValid)
            => /\ ev'.arg = "eeprom"
               /\ g_pulses' = eeprom.pulses
               /\ g_pulses_sent' = eeprom.pulses_sent
               /\ g_vzhost' = eeprom.vzhost
               /\ g_vzurl' = eeprom.vzurl
               /\ g_mqtthost' = <<>>
               /\ g_mqttport' = DefaultPort
               /\ g_mqtttopic' = <<>>
               /\ pc' = "save"
               /\ spc' = [k |-> 1, ret |-> "setup"]]_vars
    /\ [][(SaveReturns("setup") /\ LegacyValid)
            => /\ nvs'["version"] = [type |-> "i32", val |-> PrefsVersion]
               /\ nvs'["pulses"] = [type |-> "u32", val |-> eeprom.pulses]
               /\ nvs'["pulses_sent"] = [type |-> "u32", val |-> eeprom.pulses_sent]
               /\ nvs'["vzhost"] = pref_putString(eeprom.vzhost)
               /\ nvs'["vzurl"] = pref_putString(eeprom.vzurl)
               /\ nvs'["mqttport"] = [type |-> "u16", val |-> DefaultPort]
               /\ pulses' = eeprom.pulses
               /\ g_pulses' = eeprom.pulses
               /\ g_pulses_sent' = eeprom.pulses_sent]_vars

\* the upgrade of the legacy record has just been saved
C19_Witness ==
    /\ ev = [op |-> "put", arg |-> Len(NvKeys)]
    /\ aud.legacy
    /\ boots = 0
    /\ pc = "top"
    /\ iter = 0
    /\ pulses = LegacyEeprom.pulses
    /\ g_pulses_sent = LegacyEeprom.pulses_sent
    /\ g_vzhost = LegacyEeprom.vzhost
    /\ nvs["pulses"] = [type |-> "u32", val |-> LegacyEeprom.pulses]
    /\ nvs["vzurl"] = [type |-> "str", val |-> LegacyEeprom.vzurl]

\* a prefs_save() has returned since the Preferences were empty
Upgraded == aud.done["version"].type # "none"

\* C20 as stated: the EEPROM record is cleared once it has been read, so at a
\* later startup, the upgrade having been saved, it holds no valid record.
C20_LegacyCleared ==
    (pc = "setup" /\ aud.legacy /\ Upgraded) => ~LegacyValid

\* C20 amended: the EEPROM is never written; the upgrade is not repeated because
\* prefs_save() has written the key "version": at every startup after a
\* prefs_save() that returned, setup() loads the state from the Preferences.
C20_UpgradeOnceByVersionKey ==
    /\ [][eeprom' = eeprom]_vars
    /\ [][(ev'.op = "setup" /\ Upgraded)
            => /\ ev'.arg = "prefs"
               /\ g_pulses' = nvs["pulses"].val
               /\ g_pulses_sent' = nvs["pulses_sent"].val
               /\ pc' = "top"
               /\ nvs' = nvs]_vars

\* a later startup has loaded the Preferences while the EEPROM still holds the
\* record that was upgraded
C20_Witness ==
    /\ ev = [op |-> "setup", arg |-> "prefs"]
    /\ boots >= 1
    /\ aud.legacy
    /\ Upgraded
    /\ LegacyValid
    /\ eeprom = LegacyEeprom
    /\ g_pulses >= LegacyEeprom.pulses

\* C16: an override request with a "set" value that is a number other than 0
\* sets pulses to it; with a value that is 0 or not a number it is answered with
\* an error, and pulses, g_pulses, g_pulses_sent and the Preferences stay as
\* they are.
C16_OverrideValidation ==
    [][(ev'.op = "handle_pulses" /\ aud'.set)
         => IF aud'.numeric /\ ev'.arg # 0
            THEN pulses' = ev'.arg /\ ev'.ret = HttpOk
            ELSE /\ ev'.ret # HttpOk
                 /\ UNCHANGED <<pulses, g_pulses, g_pulses_sent, nvs>>
                 /\ pc' # "save"]_vars

\* line 807 is evaluated
LoopTests == pc = "top" /\ pc' \in {"call", "store"}

\* C17 as stated: after an accepted override that changed pulses, the next
\* evaluation of line 807 calls vz_push(), and the next commit_config() writes
\* the Preferences with a g_pulses that line 817 has set since the override.
C17_OverrideActsAtNextTicks ==
    /\ [][(aud.push = "set" /\ LoopTests) => pc' = "call"]_vars
    /\ [][(aud.commit # "none" /\ ~aud.ticked /\ ev'.op = "commit_config")
            => (pc' = "save" /\ aud.commit = "seen")]_vars

\* C17 amended: the iteration of loop() that follows the override calls
\* vz_push(pulses) when pulses differs from g_pulses (or the push is due) and
\* not otherwise, and sets g_pulses to pulses; a commit_config() that runs after
\* that iteration writes g_pulses when it differs from last_pulse, one that
\* runs before it compares the g_pulses of before the override; the
\* prefs_save() it enters stores g_pulses and sets last_pulse.
C17_OverrideActsThroughShadow ==
    /\ [][(aud.push = "set" /\ LoopTests)
            => (pc' = "call" <=> (pulses # g_pulses \/ update_push))]_vars
    /\ [][(aud.push = "tick" /\ ev'.op = "request") => ev'.arg = pulses]_vars
    /\ [][(aud.push = "tick" /\ pc = "store" /\ pc' = "idle") => g_pulses' = pulses]_vars
    /\ [][(aud.commit # "none" /\ ev'.op = "commit_config")
            => /\ (pc' = "save") <=> (g_pulses # last_pulse)
               /\ g_pulses' = g_pulses]_vars
    /\ [][SaveReturns("commit")
            => /\ nvs'["pulses"] = [type |-> "u32", val |-> g_pulses]
               /\ last_pulse' = g_pulses]_vars

\* with no pulse at all, an override to 2 of the counter 1 that was loaded from
\* the legacy record has been pushed and then written by commit_config()
C17_Witness ==
    /\ ev = [op |-> "put", arg |-> Len(NvKeys)]
    /\ pc = "top"
    /\ eeprom = LegacyEeprom
    /\ hilo = LOW
    /\ last_debounce = 0
    /\ aud.push = "none"
    /\ aud.commit = "none"
    /\ pulses = 2
    /\ g_pulses_sent = 2
    /\ last_pulse = 2
    /\ nvs["pulses"] = [type |-> "u32", val |-> 2]

\* C18: a request to /vz that carries an invalid input changes none of
\* g_vzhost, g_vzurl, g_mqtthost, g_mqttport and g_mqtttopic and does not enter
\* prefs_save().
C18_InvalidRequestChangesNothing ==
    [][(ev'.op = "handle_vz" /\ aud'.invalid)
         => /\ UNCHANGED <<g_vzhost, g_vzurl, g_mqtthost, g_mqttport, g_mqtttopic>>
            /\ pc' # "save"
            /\ nvs' = nvs]_vars

\* neither a record of the current format nor a legacy record is there
NothingStored ==
    nvs["version"].type = "none" /\ SubSeq(eeprom.sig, 1, SigLen) # WATER1

\* C21: with no key "version" in the Preferences and no signature WATER1 in the
\* EEPROM, setup() sets counter and watermark to 0 and host and path to the
\* empty String and goes on: it saves that state, sets pulses to 0 and enters
\* loop() with the interrupt attached.
C21_DefaultsWhenNothingStored ==
    /\ [][(ev'.op = "setup" /\ NothingStored)
            => /\ ev'.arg = "none"
               /\ g_pulses' = 0
               /\ g_pulses_sent' = 0
               /\ g_vzhost' = <<>>
               /\ g_vzurl' = <<>>
               /\ pc' = "save"
               /\ spc'.ret = "setup"]_vars
    /\ [][(SaveReturns("setup") /\ SubSeq(eeprom.sig, 1, SigLen) # WATER1)
            => /\ pulses' = 0
               /\ g_pulses' = 0
               /\ g_pulses_sent' = 0
               /\ g_vzhost' = <<>>
               /\ g_vzurl' = <<>>
               /\ pc' = "top"
               /\ Attached']_vars

\* after a boot that found a foreign signature in the EEPROM and a stray key in
\* the Preferences, loop() has run and a pulse has been counted from 0
C21_Witness ==
    /\ eeprom = CorruptEeprom
    /\ nvs["version"] = [type |-> "i32", val |-> PrefsVersion]
    /\ nvs["pulses"] = [type |-> "u32", val |-> 0]
    /\ iter >= 1
    /\ pc = "idle"
    /\ pulses = 1
    /\ g_pulses = 1
    /\ g_pulses_sent = 0
    /\ g_vzhost = <<>>

\* the step is the callback of a Ticker that was attached with attach(): it
\* runs in the context of the timer's expiry
InExpiryContext == ev'.op \in {"trigger_push", "update_temp"}

\* C22: a step in the context of a timer's expiry does none of the real work:
\* it sends no request, writes no key of the Preferences, starts no conversion
\* of the sensor and publishes nothing.
C22_TimersOnlyFlag ==
    [][InExpiryContext => UNCHANGED <<request, nvs, conv, published>>]_vars

\* isr() accepts a transition from LOW to HIGH
AcceptedRise == ev'.op = "isr" /\ hilo = LOW /\ hilo' = HIGH

\* C23: every transition from LOW to HIGH that isr() accepts raises pulses by
\* exactly 1, wherever loop() stands; no other step changes pulses but an
\* accepted override, and line 817 copies pulses as it is.
C23_NoPulseLost ==
    /\ [][AcceptedRise => pulses' = pulses + 1]_vars
    /\ [][pulses' # pulses
            => \/ AcceptedRise
               \/ (ev'.op = "handle_pulses" /\ ev'.ret = HttpOk /\ pulses' = ev'.arg)
               \/ ev'.op = "setup"]_vars
    /\ [][(pc = "store" /\ pc' = "idle") => (g_pulses' = pulses /\ pulses' = pulses)]_vars

\* after a push that blocked and succeeded, the last pulse has been counted
\* inside prefs_save(), and loop() has taken the count
C23_Witness ==
    /\ aud.at = "save"
    /\ last_push > BootMillis + HttpTimeout
    /\ pc = "idle"
    /\ pulses = MaxPulses
    /\ g_pulses = pulses

\* C24: once the server answers every request with 200 OK, and with neither an
\* override nor a restart, every value the counter reaches while the HTTP sink
\* is configured is eventually covered by g_pulses_sent
C24_EventuallyDelivered ==
    \A v \in 1..MaxPulses :
        (aud.good /\ check_vzserver /\ pulses >= v) ~> (g_pulses_sent >= v)

\* a pulse was counted while vz_push() ran, the tick stored it in the shadow
\* unsent, and a later expiry of push_timer delivered it
C24_Witness ==
    /\ aud.good
    /\ g_pulses_sent = MaxPulses
    /\ ev.op = "vz_push"
    /\ trigger = "timer"

\* vz_push() returns to line 811: a push of the counter has been made
PushMade == pc \in {"call", "wait"} /\ pc' = "store"

\* C25: when the MQTT sink is configured, a push of the counter publishes the
\* count to the configured topic (a whole number no greater than the counter),
\* and the push leaves pulses and g_pulses as they are
C25_PushPublishesCount ==
    [][(PushMade /\ check_mqserver) =>
          /\ published'.topic = g_mqtttopic
          /\ published'.payload.tenth = 0
          /\ published'.payload.whole <= pulses
          /\ UNCHANGED <<pulses, g_pulses>>]_vars

\* the first ResponseMax characters of a response
Head13(bytes) == [i \in 1..Min(Len(bytes), ResponseMax) |-> bytes[i]]

\* the status the claim reads off a response: -1 unless it begins with
\* "HTTP/1." and has three characters or more from offset 9 on, else the
\* integer that starts at offset 9
StatusOf(s) ==
    IF Len(s) < Len(HttpPrefix) \/ (\E i \in 1..Len(HttpPrefix) : s[i] # HttpPrefix[i])
    THEN -1
    ELSE IF Len(s) < StatusOffset + StatusMinLen
         THEN -1
         ELSE toInt([i \in 1..(Len(s) - StatusOffset) |-> s[i + StatusOffset]])

\* C26: code_from_str() returns the status the claim describes, and vz_push()
\* reports success, and moves g_pulses_sent, if and only if the status of the
\* first 13 characters of the response is exactly 200
C26_StatusDecidesSuccess ==
    [][ev'.op = "vz_push" =>
          LET s == Head13(ev'.arg)
          IN  /\ code_from_str(s) = StatusOf(s)
              /\ ev'.ret = (StatusOf(s) = HttpOk)
              /\ IF StatusOf(s) = HttpOk
                 THEN g_pulses_sent' = p
                 ELSE g_pulses_sent' = g_pulses_sent]_vars

\* a push succeeded on a response whose integer at offset 9 is not 200 when
\* read beyond the 13th character
C26_Witness ==
    /\ ev.op = "vz_push"
    /\ ev.ret
    /\ Len(ev.arg) > ResponseMax
    /\ toInt(substring(ev.arg, StatusOffset)) # HttpOk

\* C27: whenever commit_config() writes, it was entered with the shadow that
\* the last completed tick has set, and the counter value it stores is that one
C27_CommitStoresLastTick ==
    /\ [][(ev'.op = "commit_config" /\ ev'.arg) => g_pulses = aud.tick]_vars
    /\ [][(ev'.op = "put" /\ ev'.arg = 2 /\ spc.ret = "commit") =>
             nvs'["pulses"] = [type |-> "u32", val |-> aud.tick]]_vars

\* a commit has stored the shadow of the last tick while the counter had
\* already moved on
C27_Witness ==
    /\ ev.op = "put"
    /\ ev.arg = 2
    /\ spc.ret = "commit"
    /\ nvs["pulses"].val = aud.tick
    /\ pulses # aud.tick

\* an edge event that isr() takes for bounce
RejectedEdge ==
    /\ ev'.op = "isr"
    /\ ev'.arg # hilo
    /\ USub(now, last_debounce) < debounce_delay

\* C28: pulses is incremented no more often than a sample HIGH has followed a
\* sample LOW; between two increments hilo has fallen, and they are at least
\* 2 * debounce_delay apart; an edge taken for bounce changes neither pulses
\* nor hilo
C28_NeverOvercounts ==
    /\ [](aud.incs <= aud.rises)
    /\ [][(ev'.op = "isr" /\ pulses' # pulses) =>
             /\ pulses' = pulses + 1
             /\ aud.inc_at # -1 =>
                   /\ aud.fell
                   /\ USub(now, aud.inc_at) >= 2 * debounce_delay]_vars
    /\ [][RejectedEdge => UNCHANGED <<pulses, hilo>>]_vars

\* two increments exactly 2 * debounce_delay apart, and a rise that was
\* delivered and not counted
C28_Witness ==
    /\ aud.incs = 2
    /\ aud.rises > aud.incs
    /\ ev.op = "isr"
    /\ aud.inc_at = now
    /\ now = BootMillis + 2 * debounce_delay

\* C29: a run of isr() leaves g_pulses, g_pulses_sent, last_pulse, update_push,
\* the endpoint configuration, the Preferences, the EEPROM, the HTTP request
\* and the MQTT message as they are, and writes nothing but hilo,
\* last_debounce and pulses
C29_IsrWritesOnlyItsOwn ==
    [][ev'.op = "isr" =>
          /\ UNCHANGED <<g_pulses, g_pulses_sent, last_pulse, update_push>>
          /\ UNCHANGED <<g_vzhost, g_vzurl, mqttVars>>
          /\ UNCHANGED <<nvs, eeprom, spc, request, published>>
          /\ UNCHANGED <<pc, p, timeout, last_push, push_timer, now>>]_vars

\* isr() has counted a pulse while commit_config() was storing the state
C29_Witness ==
    /\ ev.op = "isr"
    /\ pc = "save"
    /\ spc.ret = "commit"
    /\ spc.k > 2
    /\ hilo = HIGH
    /\ last_debounce = now
    /\ pulses = g_pulses + 1

\* a host name as the claim wants it: alphanumerics, '-' and '.', and neither
\* '-' nor '.' in front
HostChars == Lower \cup Upper \cup {Digits[i] : i \in 1..Len(Digits)} \cup {"-", "."}
GoodHost(h) == (\A i \in 1..Len(h) : h[i] \in HostChars) /\ Head(h) \notin {"-", "."}
GoodPath(u) == Head(u) = "/"

\* C30: a non-empty g_vzhost or g_mqtthost is a good host name and a non-empty
\* g_vzurl starts with '/'; so a request, which is built only when host and
\* path are non-empty, is built from a good host name and such a path
C30_ValidatedNames ==
    /\ g_vzhost # <<>> => GoodHost(g_vzhost)
    /\ g_mqtthost # <<>> => GoodHost(g_mqtthost)
    /\ g_vzurl # <<>> => GoodPath(g_vzurl)
    /\ request # <<>> => /\ request.host # <<>> /\ GoodHost(request.host)
                         /\ request.url # <<>> /\ GoodPath(request.url)

\* a request was built from names set through /vz, after a request to /vz with
\* an invalid name had been refused
C30_Witness ==
    /\ request # <<>>
    /\ request.host = <<"v", "-", "1", ".", "Z">>
    /\ request.url = <<"/", "b">>
    /\ g_mqtthost = <<"m", ".">>
    /\ aud.invalid

\* C31: the counter is never negative, also after an accepted override with a
\* non-zero numeric value, and line 817 makes the shadow the counter (the
\* shadow is held as the signed reading of its 32 bits)
C31_CounterUnsigned ==
    /\ [](pulses >= 0)
    /\ [][(pc = "store" /\ pc' = "idle") => g_pulses' = pulses]_vars

\* C32: the value line 817 stores is the value line 807 compared and, if
\* vz_push() was called in the tick, the count handed to it; so a value that
\* becomes the shadow is the old shadow or was handed to vz_push() in that tick
C32_TickSnapshot ==
    [][(pc = "store" /\ pc' = "idle") =>
          /\ g_pulses' = aud.seen
          /\ aud.sent # -1 => aud.sent = aud.seen
          /\ g_pulses' # g_pulses => aud.sent = g_pulses']_vars

\* C33: update_push is cleared only by a tick whose call of vz_push() began
\* after the expiry that raised it
C33_FlagNeedsOwnPush ==
    [][(update_push /\ ~update_push') => ~aud.late]_vars

\* the step ends a run of commit_config(): it has found nothing to write, or
\* the prefs_save() it has entered returns
CommitCompletes == (ev'.op = "commit_config" /\ ~ev'.arg) \/ SaveReturns("commit")

\* C34: when a commit-timer tick completes, the watermark in the Preferences
\* is g_pulses_sent
C34_WatermarkStored ==
    [][CommitCompletes =>
          nvs'["pulses_sent"] = [type |-> "u32", val |-> g_pulses_sent']]_vars

\* C35: every value a push transmits is at least every value the sink has
\* acknowledged with 200 OK before, restarts in between included
C35_AckedNeverUndercut ==
    [][ev'.op = "request" => request'.value >= aud.acked]_vars

\* C36: the startup that follows a reset during the prefs_save() of the legacy
\* upgrade ends with the counter, the watermark, the host and the path of the
\* record in the EEPROM
C36_UpgradeSurvivesCrash ==
    [][(aud.cut /\ StartupEnds) =>
          /\ pulses' = eeprom.pulses
          /\ g_pulses' = eeprom.pulses
          /\ g_pulses_sent' = eeprom.pulses_sent
          /\ g_vzhost' = eeprom.vzhost
          /\ g_vzurl' = eeprom.vzurl]_vars

====
